---- MODULE Spec2Model ----
(***************************************************************************)
(* Data Alchemist: validation engine (ValidationService), upload handler   *)
(* (FileUpload.onDrop) and natural-language query engine (SearchPanel).    *)
(*                                                                         *)
(* JavaScript strings are sequences of one-character strings, so that      *)
(* split, trim, parseInt, JSON.parse, includes and the regular expressions *)
(* are computed character by character.  A cell value is a string, an      *)
(* integer number (a numeric spreadsheet cell) or undefined (no such key). *)
(***************************************************************************)
EXTENDS Integers, Sequences, FiniteSets, TLC

VARIABLES
    uploadedEntities, \* the entities built from the dropped files
    seenIds,       \* the seen-ID Set object of the latest validation call
    results,       \* per entity: what the latest validateEntity call returned
    earlier,       \* per entity: what the validateEntity call before that returned
    phaseResult,   \* what the latest validatePhaseSlotSaturation call returned
    uploadedData,  \* Index state: the validated entities handed to onDataUpload
    searchQuery,   \* SearchPanel state: the text of the query box
    searchResults, \* SearchPanel state: the rows of the latest finished query
    isSearching,   \* SearchPanel state: the busy flag
    queryInsights, \* SearchPanel state: how the latest query was processed
    inFlight,      \* the queries waiting for their 800 ms timer, oldest first
    searched,      \* the arguments of the latest onSearch(query, results) call
    selectedRuleType,    \* RuleBuilder state: the rule type of the form
    ruleName,            \* RuleBuilder state: the name field of the form
    ruleDescription,     \* RuleBuilder state: the description field of the form
    ruleParameters,      \* RuleBuilder state: the parameters object of the form
    naturalLanguageRule, \* RuleBuilder state: the free text of the rule box
    toasted,             \* the latest toast shown by the RuleBuilder
    interpreted,         \* the text of the latest 'interpret' click and its outcome
    activeTab,           \* Index state: the value of the selected tab
    businessRules,       \* Index state: the rule list shown by the RuleBuilder
    priorityWeights,     \* Index state: the priority-weight mapping
    localWeights,        \* PrioritizationPanel state: the weights behind the sliders
    searchTerm,          \* per uploaded entity: the filter box of its DataGrid
    editingCell,         \* per uploaded entity: the cell being edited in its DataGrid
    clicked,             \* per uploaded entity: the position in entity.data of the clicked row
    now                  \* the clock read by Date.now()

queryVars == <<searchQuery, searchResults, isSearching, queryInsights, inFlight, searched>>

ruleVars == <<selectedRuleType, ruleName, ruleDescription, ruleParameters,
              naturalLanguageRule, toasted, interpreted>>

vars == <<uploadedEntities, seenIds, results, earlier, phaseResult, uploadedData,
          searchQuery, searchResults, isSearching, queryInsights, inFlight, searched,
          selectedRuleType, ruleName, ruleDescription, ruleParameters,
          naturalLanguageRule, toasted, interpreted,
          activeTab, businessRules, priorityWeights, localWeights,
          searchTerm, editingCell, clicked, now>>

gridVars == <<searchTerm, editingCell, clicked>>

listVars == <<businessRules, now>>

weightVars == <<priorityWeights, localWeights>>

pageVars == <<activeTab, gridVars, listVars, weightVars>>

\* ------------------------------------------------------------------------
\* Characters
\* ------------------------------------------------------------------------

Digits == <<"0", "1", "2", "3", "4", "5", "6", "7", "8", "9">>

UpperChars == <<"A", "B", "C", "D", "E", "F", "G", "H", "I", "J", "K", "L", "M",
                "N", "O", "P", "Q", "R", "S", "T", "U", "V", "W", "X", "Y", "Z">>

LowerChars == <<"a", "b", "c", "d", "e", "f", "g", "h", "i", "j", "k", "l", "m",
                "n", "o", "p", "q", "r", "s", "t", "u", "v", "w", "x", "y", "z">>

\* the value of each decimal digit
DigitValue ==
    [c \in {Digits[i] : i \in DOMAIN Digits} |-> (CHOOSE i \in DOMAIN Digits : Digits[i] = c) - 1]

IsDigit(c) == c \in DOMAIN DigitValue

DigitVal(c) == DigitValue[c]

\* the lower-case letter of each upper-case letter
LowerOf ==
    [c \in {UpperChars[i] : i \in DOMAIN UpperChars} |->
        LowerChars[CHOOSE i \in DOMAIN UpperChars : UpperChars[i] = c]]

\* \s of a regular expression, and the white space trim() and parseInt skip
IsSpace(c) == c = " "

\* the characters \w of a regular expression matches
WordChars ==
    DOMAIN DigitValue \cup DOMAIN LowerOf \cup {LowerOf[u] : u \in DOMAIN LowerOf} \cup {"_"}

IsWord(c) == c \in WordChars

LowerChar(c) == IF c \in DOMAIN LowerOf THEN LowerOf[c] ELSE c

\* ------------------------------------------------------------------------
\* Strings (sequences of characters)
\* ------------------------------------------------------------------------

\* String.prototype.toLowerCase
toLowerCase(s) == [i \in DOMAIN s |-> LowerChar(s[i])]

\* s.substring(i - 1, j - 1): the characters at positions i .. j-1
Slice(s, i, j) == IF j <= i THEN <<>> ELSE SubSeq(s, i, j - 1)

\* whether needle occurs in s at position i
OccursAt(s, needle, i) ==
    /\ i >= 1
    /\ i + Len(needle) - 1 <= Len(s)
    /\ \A k \in 1..Len(needle) : s[i + k - 1] = needle[k]

\* String.prototype.includes
includes(s, needle) == \E i \in 1..(Len(s) + 1) : OccursAt(s, needle, i)

\* String.prototype.trim
RECURSIVE TrimLeft(_)
TrimLeft(s) == IF s # <<>> /\ IsSpace(Head(s)) THEN TrimLeft(Tail(s)) ELSE s

RECURSIVE TrimRight(_)
TrimRight(s) ==
    IF s # <<>> /\ IsSpace(s[Len(s)]) THEN TrimRight(SubSeq(s, 1, Len(s) - 1)) ELSE s

trim(s) == TrimRight(TrimLeft(s))

\* String.prototype.split(sep) for a one-character separator: always at
\* least one piece, empty pieces kept
RECURSIVE SplitFrom(_, _, _, _)
SplitFrom(s, sep, i, cur) ==
    IF i > Len(s) THEN <<cur>>
    ELSE IF s[i] = sep THEN <<cur>> \o SplitFrom(s, sep, i + 1, <<>>)
    ELSE SplitFrom(s, sep, i + 1, Append(cur, s[i]))

split(s, sep) == SplitFrom(s, sep, 1, <<>>)

\* Array.prototype.join(sep) over strings
RECURSIVE join(_, _)
join(parts, sep) ==
    IF parts = <<>> THEN <<>>
    ELSE IF Len(parts) = 1 THEN parts[1]
    ELSE parts[1] \o sep \o join(Tail(parts), sep)

\* decimal digits of a natural number
RECURSIVE NatToStr(_)
NatToStr(n) ==
    IF n < 10 THEN <<Digits[n + 1]>>
    ELSE Append(NatToStr(n \div 10), Digits[(n % 10) + 1])

IntToStr(n) == IF n < 0 THEN <<"-">> \o NatToStr(-n) ELSE NatToStr(n)

\* the elements of seq as a set
Range(seq) == {seq[i] : i \in DOMAIN seq}

\* all sequences over S with at most n elements
SeqUpTo(S, n) == UNION {[1..k -> S] : k \in 0..n}

\* ------------------------------------------------------------------------
\* JavaScript values of a cell
\* ------------------------------------------------------------------------

Str(s) == [t |-> "string", s |-> s, n |-> 0]

Num(n) == [t |-> "number", s |-> <<>>, n |-> n]

Undefined == [t |-> "undefined", s |-> <<>>, n |-> 0]

IsString(v) == v.t = "string"

IsNumber(v) == v.t = "number"

\* ToBoolean: "" and 0 and undefined are falsy
Truthy(v) ==
    CASE v.t = "string" -> v.s # <<>>
      [] v.t = "number" -> v.n # 0
      [] OTHER -> FALSE

\* String(v), as in a template literal or value.toString()
ToStr(v) ==
    CASE v.t = "string" -> v.s
      [] v.t = "number" -> IntToStr(v.n)
      [] OTHER -> <<"u", "n", "d", "e", "f", "i", "n", "e", "d">>

\* a JavaScript number that may be NaN
NaN == [nan |-> TRUE, n |-> 0]

Int_(n) == [nan |-> FALSE, n |-> n]

isNaN(x) == x.nan

\* value of the longest digit prefix of s from position i (acc so far)
RECURSIVE DigitsVal(_, _, _)
DigitsVal(s, i, acc) ==
    IF i <= Len(s) /\ IsDigit(s[i]) THEN DigitsVal(s, i + 1, acc * 10 + DigitVal(s[i]))
    ELSE acc

\* parseInt of a string: leading white space, an optional sign, then the
\* longest run of decimal digits; NaN when there is no digit
parseIntDigits(d, neg) ==
    IF d = <<>> \/ ~IsDigit(d[1]) THEN NaN
    ELSE Int_(IF neg THEN -DigitsVal(d, 1, 0) ELSE DigitsVal(d, 1, 0))

parseIntTrimmed(s) ==
    IF s # <<>> /\ s[1] = "-" THEN parseIntDigits(Tail(s), TRUE)
    ELSE IF s # <<>> /\ s[1] = "+" THEN parseIntDigits(Tail(s), FALSE)
    ELSE parseIntDigits(s, FALSE)

parseIntStr(s) == parseIntTrimmed(TrimLeft(s))

\* parseInt(v): the argument is converted to a string first
parseInt(v) == parseIntStr(ToStr(v))

\* ------------------------------------------------------------------------
\* JSON.parse
\* ------------------------------------------------------------------------
\* A parsed JSON value.  A number keeps its sign, integer part and fraction
\* digits (trailing zeros dropped), so 1.0 is the integer 1 and 1.5 is not
\* an integer.  Exponents and string escapes are not part of the cell texts
\* this model feeds to the parser.

JNumber(neg, n, frac) ==
    [k |-> "number", neg |-> neg, n |-> n, frac |-> frac, s |-> <<>>, items |-> <<>>]

JInt(n) == JNumber(n < 0, IF n < 0 THEN -n ELSE n, <<>>)

JString(s) ==
    [k |-> "string", neg |-> FALSE, n |-> 0, frac |-> <<>>, s |-> s, items |-> <<>>]

JArray(items) ==
    [k |-> "array", neg |-> FALSE, n |-> 0, frac |-> <<>>, s |-> <<>>, items |-> items]

JObject == [k |-> "object", neg |-> FALSE, n |-> 0, frac |-> <<>>, s |-> <<>>, items |-> <<>>]

JNull == [k |-> "null", neg |-> FALSE, n |-> 0, frac |-> <<>>, s |-> <<>>, items |-> <<>>]

JBool(b) ==
    [k |-> "boolean", neg |-> FALSE, n |-> (IF b THEN 1 ELSE 0), frac |-> <<>>,
     s |-> <<>>, items |-> <<>>]

ParseFail == [ok |-> FALSE, v |-> JNull, i |-> 0]

ParseOk(v, i) == [ok |-> TRUE, v |-> v, i |-> i]

RECURSIVE SkipWs(_, _)
SkipWs(s, i) == IF i <= Len(s) /\ IsSpace(s[i]) THEN SkipWs(s, i + 1) ELSE i

\* first position >= i that holds no digit
RECURSIVE SkipDigits(_, _)
SkipDigits(s, i) == IF i <= Len(s) /\ IsDigit(s[i]) THEN SkipDigits(s, i + 1) ELSE i

\* f without its trailing zeros
RECURSIVE DropZeros(_)
DropZeros(f) ==
    IF f # <<>> /\ f[Len(f)] = "0" THEN DropZeros(SubSeq(f, 1, Len(f) - 1)) ELSE f

\* JSON number at position i: -? (0 | [1-9][0-9]*) (. [0-9]+)?
\* d: the first digit position, e: the end of the integer digits
NumberFrom(s, neg, d, e) ==
    LET Fraction(fe) ==
            IF fe = e + 1 THEN ParseFail
            ELSE ParseOk(JNumber(neg, DigitsVal(s, d, 0), DropZeros(Slice(s, e + 1, fe))), fe)
    IN  IF e = d THEN ParseFail
        ELSE IF s[d] = "0" /\ e > d + 1 THEN ParseFail
        ELSE IF e <= Len(s) /\ s[e] = "." THEN Fraction(SkipDigits(s, e + 1))
        ELSE ParseOk(JNumber(neg, DigitsVal(s, d, 0), <<>>), e)

ParseNumber(s, i) ==
    LET From(neg, d) == NumberFrom(s, neg, d, SkipDigits(s, d))
    IN  IF s[i] = "-" THEN From(TRUE, i + 1) ELSE From(FALSE, i)

\* JSON string at position i (s[i] is the opening quote)
RECURSIVE FindQuote(_, _)
FindQuote(s, i) ==
    IF i > Len(s) THEN 0
    ELSE IF s[i] = "\"" THEN i
    ELSE IF s[i] = "\\" THEN 0
    ELSE FindQuote(s, i + 1)

ParseString(s, i) ==
    LET Close(q) == IF q = 0 THEN ParseFail ELSE ParseOk(JString(Slice(s, i + 1, q)), q + 1)
    IN  Close(FindQuote(s, i + 1))

ParseLiteral(s, i, word, v) ==
    IF OccursAt(s, word, i) THEN ParseOk(v, i + Len(word)) ELSE ParseFail

\* a literal true, false or null at position i
ParseWord(s, i) ==
    CASE s[i] = "t" -> ParseLiteral(s, i, <<"t", "r", "u", "e">>, JBool(TRUE))
      [] s[i] = "f" -> ParseLiteral(s, i, <<"f", "a", "l", "s", "e">>, JBool(FALSE))
      [] s[i] = "n" -> ParseLiteral(s, i, <<"n", "u", "l", "l">>, JNull)
      [] OTHER -> ParseFail

RECURSIVE ParseValue(_, _)
RECURSIVE ParseElements(_, _, _)
RECURSIVE ParseMembers(_, _)

\* the rest of an array, s[i] being "," or "]"; acc holds the elements so far
ParseElements(s, i, acc) ==
    LET Next_(r) ==
            IF ~r.ok THEN ParseFail
            ELSE ParseElements(s, SkipWs(s, r.i), Append(acc, r.v))
    IN  IF i > Len(s) THEN ParseFail
        ELSE IF s[i] = "]" THEN ParseOk(JArray(acc), i + 1)
        ELSE IF s[i] # "," THEN ParseFail
        ELSE Next_(ParseValue(s, SkipWs(s, i + 1)))

\* the members of an object, s[i] being the opening quote of a key
ParseMembers(s, i) ==
    LET AfterValue(e) ==
            IF e > Len(s) THEN ParseFail
            ELSE IF s[e] = "}" THEN ParseOk(JObject, e + 1)
            ELSE IF s[e] = "," THEN ParseMembers(s, SkipWs(s, e + 1))
            ELSE ParseFail
        Value(r) == IF ~r.ok THEN ParseFail ELSE AfterValue(SkipWs(s, r.i))
        Colon(c) ==
            IF c > Len(s) \/ s[c] # ":" THEN ParseFail
            ELSE Value(ParseValue(s, SkipWs(s, c + 1)))
        Key(key) == IF ~key.ok THEN ParseFail ELSE Colon(SkipWs(s, key.i))
    IN  IF i > Len(s) \/ s[i] # "\"" THEN ParseFail
        ELSE Key(ParseString(s, i))

ParseValue(s, i) ==
    LET First(r) == IF ~r.ok THEN ParseFail ELSE ParseElements(s, SkipWs(s, r.i), <<r.v>>)
        Array(j) ==
            IF j <= Len(s) /\ s[j] = "]" THEN ParseOk(JArray(<<>>), j + 1)
            ELSE First(ParseValue(s, j))
        Object(j) ==
            IF j <= Len(s) /\ s[j] = "}" THEN ParseOk(JObject, j + 1)
            ELSE ParseMembers(s, j)
    IN  IF i > Len(s) THEN ParseFail
        ELSE IF s[i] = "[" THEN Array(SkipWs(s, i + 1))
        ELSE IF s[i] = "{" THEN Object(SkipWs(s, i + 1))
        ELSE IF s[i] = "\"" THEN ParseString(s, i)
        ELSE IF s[i] = "-" \/ IsDigit(s[i]) THEN ParseNumber(s, i)
        ELSE ParseWord(s, i)

\* JSON.parse of a string: ok = FALSE stands for the SyntaxError it throws
JSONparseStr(s) ==
    LET Whole(r) == IF r.ok /\ SkipWs(s, r.i) = Len(s) + 1 THEN r ELSE ParseFail
    IN  Whole(ParseValue(s, SkipWs(s, 1)))

\* JSON.parse(v): the argument is converted to a string first
JSONparse(v) == JSONparseStr(ToStr(v))

\* Number.isInteger(x) for a parsed JSON value
NumberIsInteger(x) == x.k = "number" /\ x.frac = <<>>

\* the integer a parsed JSON integer stands for
JIntVal(x) == IF x.neg THEN -x.n ELSE x.n

\* Array.isArray
ArrayIsArray(x) == x.k = "array"

\* String(x) of a parsed JSON value, as used for a property key
RECURSIVE JToStr(_)
JToStr(x) ==
    CASE x.k = "number" ->
            (IF x.neg /\ (x.n # 0 \/ x.frac # <<>>) THEN <<"-">> ELSE <<>>)
            \o NatToStr(x.n) \o (IF x.frac = <<>> THEN <<>> ELSE <<".">> \o x.frac)
      [] x.k = "string" -> x.s
      [] x.k = "array" ->
            join([j \in DOMAIN x.items |->
                     IF x.items[j].k = "null" THEN <<>> ELSE JToStr(x.items[j])],
                 <<",">>)
      [] x.k = "boolean" ->
            (IF x.n = 1 THEN <<"t", "r", "u", "e">> ELSE <<"f", "a", "l", "s", "e">>)
      [] x.k = "null" -> <<"n", "u", "l", "l">>
      [] OTHER ->
            <<"[", "o", "b", "j", "e", "c", "t", " ", "O", "b", "j", "e", "c", "t", "]">>

\* ------------------------------------------------------------------------
\* Entity model (DataEntity, ValidationError)
\* ------------------------------------------------------------------------

\* row[field], undefined when the row has no such key
Get(row, f) == IF f \in DOMAIN row THEN row[f] ELSE Undefined

\* a template-literal message: its fixed text and the interpolated values
Message(text, args) == [text |-> text, args |-> args]

ValidationError(row, column, type, message, severity) ==
    [row |-> row, column |-> column, type |-> type, message |-> message,
     severity |-> severity]

DataEntity(id, type, data) ==
    [id |-> id, type |-> type, data |-> data, errors |-> <<>>, warnings |-> <<>>]

\* allEntities.find(e => e.type === type): index of the first one, 0 if none
RECURSIVE FindTypeFrom(_, _, _)
FindTypeFrom(entities, type, i) ==
    IF i > Len(entities) THEN 0
    ELSE IF entities[i].type = type THEN i
    ELSE FindTypeFrom(entities, type, i + 1)

findByType(entities, type) == FindTypeFrom(entities, type, 1)

\* the outcome of a validation loop: whether a TypeError escaped (the
\* diagnostics pushed so far are then lost with the call), the diagnostics
\* pushed, and the seen-ID set
Outcome(threw, errors, seen) ==
    [threw |-> threw, errors |-> IF threw THEN <<>> ELSE errors, seen |-> seen]

\* String(x) for a number that may be NaN
NumToStr(x) == IF x.nan THEN <<"N", "a", "N">> ELSE IntToStr(x.n)

\* if (cond) errors.push(diagnostic)
PushIf(cond, diagnostic) == IF cond THEN <<diagnostic>> ELSE <<>>

\* cell.split(',').map(s => s.trim())
SplitTrim(s) ==
    LET Trimmed(parts) == [k \in DOMAIN parts |-> trim(parts[k])]
    IN  Trimmed(split(s, ","))

\* the try block of the AvailableSlots / PreferredPhases check passes: an
\* array whose elements are all integers >= 1
PositiveIntegers(x) ==
    /\ ArrayIsArray(x)
    /\ \A j \in DOMAIN x.items : NumberIsInteger(x.items[j]) /\ JIntVal(x.items[j]) >= 1

\* ------------------------------------------------------------------------
\* ValidationService
\* ------------------------------------------------------------------------

ClientRequiredColumns ==
    <<"ClientID", "ClientName", "PriorityLevel", "RequestedTaskIDs", "GroupTag">>

WorkerRequiredColumns ==
    <<"WorkerID", "WorkerName", "Skills", "AvailableSlots", "MaxLoadPerPhase">>

TaskRequiredColumns ==
    <<"TaskID", "TaskName", "Duration", "RequiredSkills", "MaxConcurrent">>

checkRequiredColumns(entity, requiredColumns, errors) ==
    LET Missing(missingColumns) ==
            [k \in DOMAIN missingColumns |->
                ValidationError(1, missingColumns[k], "missing_column",
                    Message("Required column is missing", <<>>), "error")]
    IN  IF Len(entity.data) = 0 THEN errors
        ELSE errors \o Missing(SelectSeq(requiredColumns,
                                   LAMBDA col : col \notin DOMAIN entity.data[1]))

\* `Duplicate ${idColumn}: ` and `${idColumn} is required`
DuplicateText(idColumn) ==
    CASE idColumn = "ClientID" -> "Duplicate ClientID: "
      [] idColumn = "WorkerID" -> "Duplicate WorkerID: "
      [] OTHER -> "Duplicate TaskID: "

RequiredText(idColumn) ==
    CASE idColumn = "ClientID" -> "ClientID is required"
      [] idColumn = "WorkerID" -> "WorkerID is required"
      [] OTHER -> "TaskID is required"

\* the duplicate-ID and missing-ID checks, the same in the three row loops
IdChecks(id, rowNum, idColumn, seen) ==
    PushIf(id \in seen,
           ValidationError(rowNum, idColumn, "duplicate_id",
               Message(DuplicateText(idColumn), <<ToStr(id)>>), "error"))
    \o PushIf(~Truthy(id),
              ValidationError(rowNum, idColumn, "missing_value",
                  Message(RequiredText(idColumn), <<>>), "error"))

\* else if (row.ID) seenIds.add(row.ID)
SeenAfter(id, seen) == IF id \notin seen /\ Truthy(id) THEN seen \cup {id} ELSE seen

\* Priority level validation
PriorityCheck(priority, rowNum) ==
    PushIf(isNaN(priority) \/ priority.n < 1 \/ priority.n > 5,
           ValidationError(rowNum, "PriorityLevel", "invalid_range",
               Message("PriorityLevel must be between 1 and 5", <<>>), "error"))

\* Validate JSON: only a SyntaxError of JSON.parse is reported
AttributesCheck(attrs, rowNum) ==
    PushIf(Truthy(attrs) /\ ~JSONparse(attrs).ok,
           ValidationError(rowNum, "AttributesJSON", "invalid_json",
               Message("Invalid JSON format in AttributesJSON", <<>>), "error"))

\* taskIds.forEach(taskId => if (!validTaskIds.has(taskId)) errors.push(...))
UnknownReferences(taskIds, rowNum, validTaskIds) ==
    LET Each(unknown) ==
            [k \in DOMAIN unknown |->
                ValidationError(rowNum, "RequestedTaskIDs", "unknown_reference",
                    Message("Unknown TaskID reference: ", <<unknown[k]>>), "error")]
    IN  Each(SelectSeq(taskIds, LAMBDA tid : Str(tid) \notin validTaskIds))

\* whether cell.split(',') throws: a truthy cell that is no string
SplitThrows(cell) == Truthy(cell) /\ ~IsString(cell)

\* Validate requested task IDs
RequestedCheck(req, rowNum, validTaskIds) ==
    IF Truthy(req) /\ IsString(req)
    THEN UnknownReferences(SplitTrim(req.s), rowNum, validTaskIds)
    ELSE <<>>

\* body of the forEach of validateClients
ClientRow(row, rowNum, validTaskIds, errors, seen) ==
    Outcome(SplitThrows(Get(row, "RequestedTaskIDs")),
            errors
            \o IdChecks(Get(row, "ClientID"), rowNum, "ClientID", seen)
            \o PriorityCheck(parseInt(Get(row, "PriorityLevel")), rowNum)
            \o AttributesCheck(Get(row, "AttributesJSON"), rowNum)
            \o RequestedCheck(Get(row, "RequestedTaskIDs"), rowNum, validTaskIds),
            SeenAfter(Get(row, "ClientID"), seen))

\* entity.data.forEach(...), stopping at the row whose body throws
RECURSIVE ClientRows(_, _, _, _)
ClientRows(data, index, validTaskIds, acc) ==
    IF index > Len(data) \/ acc.threw THEN acc
    ELSE ClientRows(data, index + 1, validTaskIds,
             ClientRow(data[index], index, validTaskIds, acc.errors, acc.seen))

\* a seen-ID set kept from one invocation to the next
ReuseSeenIds(previous) == previous

\* const seenIds = new Set() : a fresh set for every invocation
NewSeenIds(previous) == {}

\* new Set(tasksEntity?.data.map(task => task.TaskID) || [])
ValidTaskIds(allEntities, t) ==
    IF t = 0 THEN {}
    ELSE {Get(allEntities[t].data[k], "TaskID") : k \in DOMAIN allEntities[t].data}

validateClients(entity, allEntities, previousSeen) ==
    ClientRows(entity.data, 1, ValidTaskIds(allEntities, findByType(allEntities, "tasks")),
        Outcome(FALSE, checkRequiredColumns(entity, ClientRequiredColumns, <<>>),
                NewSeenIds(previousSeen)))

\* an overload check that reports an error, and also when the counts are equal
OverloadAsError(nSlots, maxLoad, rowNum) ==
    PushIf(~isNaN(maxLoad) /\ nSlots <= maxLoad.n,
           ValidationError(rowNum, "MaxLoadPerPhase", "overloaded_worker",
               Message("MaxLoadPerPhase exceeds available slots",
                       <<NumToStr(maxLoad), NatToStr(nSlots)>>), "error"))

\* Check overloaded workers
OverloadCheck(nSlots, maxLoad, rowNum) ==
    PushIf(~isNaN(maxLoad) /\ nSlots < maxLoad.n,
           ValidationError(rowNum, "MaxLoadPerPhase", "overloaded_worker",
               Message("MaxLoadPerPhase exceeds available slots",
                       <<NumToStr(maxLoad), NatToStr(nSlots)>>), "warning"))

\* Validate AvailableSlots: r is JSON.parse of the cell
SlotsCheck(slotsCell, r, maxLoad, rowNum) ==
    IF ~Truthy(slotsCell) THEN <<>>
    ELSE IF r.ok /\ PositiveIntegers(r.v) THEN OverloadCheck(Len(r.v.items), maxLoad, rowNum)
    ELSE <<ValidationError(rowNum, "AvailableSlots", "malformed_list",
               Message("AvailableSlots must be a valid JSON array of phase numbers", <<>>),
               "error")>>

\* Validate MaxLoadPerPhase
MaxLoadCheck(maxLoad, rowNum) ==
    PushIf(isNaN(maxLoad) \/ maxLoad.n < 1,
           ValidationError(rowNum, "MaxLoadPerPhase", "invalid_range",
               Message("MaxLoadPerPhase must be a positive integer", <<>>), "error"))

\* a row body that validates MaxLoadPerPhase before AvailableSlots
WorkerRowLoadFirst(row, rowNum, errors, seen) ==
    Outcome(FALSE,
            errors
            \o IdChecks(Get(row, "WorkerID"), rowNum, "WorkerID", seen)
            \o MaxLoadCheck(parseInt(Get(row, "MaxLoadPerPhase")), rowNum)
            \o SlotsCheck(Get(row, "AvailableSlots"), JSONparse(Get(row, "AvailableSlots")),
                          parseInt(Get(row, "MaxLoadPerPhase")), rowNum),
            SeenAfter(Get(row, "WorkerID"), seen))

\* body of the forEach of validateWorkers
WorkerRow(row, rowNum, errors, seen) ==
    Outcome(FALSE,
            errors
            \o IdChecks(Get(row, "WorkerID"), rowNum, "WorkerID", seen)
            \o SlotsCheck(Get(row, "AvailableSlots"), JSONparse(Get(row, "AvailableSlots")),
                          parseInt(Get(row, "MaxLoadPerPhase")), rowNum)
            \o MaxLoadCheck(parseInt(Get(row, "MaxLoadPerPhase")), rowNum),
            SeenAfter(Get(row, "WorkerID"), seen))

RECURSIVE WorkerRows(_, _, _)
WorkerRows(data, index, acc) ==
    IF index > Len(data) \/ acc.threw THEN acc
    ELSE WorkerRows(data, index + 1, WorkerRow(data[index], index, acc.errors, acc.seen))

validateWorkers(entity, allEntities, previousSeen) ==
    WorkerRows(entity.data, 1,
        Outcome(FALSE, checkRequiredColumns(entity, WorkerRequiredColumns, <<>>),
                NewSeenIds(previousSeen)))

\* the trimmed skills of one worker, none when the cell is falsy
SkillsOf(cell) == IF Truthy(cell) /\ IsString(cell) THEN Range(SplitTrim(cell.s)) ELSE {}

\* Duration validation
DurationCheck(duration, rowNum) ==
    PushIf(isNaN(duration) \/ duration.n < 1,
           ValidationError(rowNum, "Duration", "invalid_range",
               Message("Duration must be a positive integer", <<>>), "error"))

\* MaxConcurrent validation
MaxConcurrentCheck(maxConcurrent, rowNum) ==
    PushIf(isNaN(maxConcurrent) \/ maxConcurrent.n < 1,
           ValidationError(rowNum, "MaxConcurrent", "invalid_range",
               Message("MaxConcurrent must be a positive integer", <<>>), "error"))

\* Skill coverage validation
CoverageCheck(uncoveredSkills, rowNum) ==
    PushIf(Len(uncoveredSkills) > 0,
           ValidationError(rowNum, "RequiredSkills", "skill_coverage",
               Message("No workers have these required skills: ",
                       <<join(uncoveredSkills, <<",", " ">>)>>), "warning"))

\* Max-concurrency feasibility check
FeasibilityCheck(nQualified, maxConcurrent, rowNum) ==
    PushIf(~isNaN(maxConcurrent) /\ nQualified < maxConcurrent.n,
           ValidationError(rowNum, "MaxConcurrent", "max_concurrency_feasibility",
               Message("MaxConcurrent exceeds qualified workers",
                       <<NumToStr(maxConcurrent), NatToStr(nQualified)>>), "warning"))

\* workersEntity?.data.filter(worker => ...) || []
QualifiedWorkers(workers, requiredSkills) ==
    SelectSeq(workers, LAMBDA w :
        Truthy(Get(w, "Skills"))
        /\ \E k \in DOMAIN requiredSkills : requiredSkills[k] \in SkillsOf(Get(w, "Skills")))

\* the block under if (row.RequiredSkills)
SkillsCheck(requiredSkills, maxConcurrent, workers, allWorkerSkills, rowNum) ==
    CoverageCheck(SelectSeq(requiredSkills, LAMBDA sk : sk \notin allWorkerSkills), rowNum)
    \o FeasibilityCheck(Len(QualifiedWorkers(workers, requiredSkills)), maxConcurrent, rowNum)

\* Validate PreferredPhases
PhasesCheck(phasesCell, r, rowNum) ==
    PushIf(Truthy(phasesCell) /\ ~(r.ok /\ PositiveIntegers(r.v)),
           ValidationError(rowNum, "PreferredPhases", "malformed_list",
               Message("PreferredPhases must be a valid JSON array of phase numbers", <<>>),
               "error"))

\* body of the forEach of validateTasks
TaskRow(row, rowNum, workers, allWorkerSkills, errors, seen) ==
    Outcome(SplitThrows(Get(row, "RequiredSkills")),
            errors
            \o IdChecks(Get(row, "TaskID"), rowNum, "TaskID", seen)
            \o DurationCheck(parseInt(Get(row, "Duration")), rowNum)
            \o MaxConcurrentCheck(parseInt(Get(row, "MaxConcurrent")), rowNum)
            \o (IF Truthy(Get(row, "RequiredSkills")) /\ IsString(Get(row, "RequiredSkills"))
                THEN SkillsCheck(SplitTrim(Get(row, "RequiredSkills").s),
                                 parseInt(Get(row, "MaxConcurrent")), workers,
                                 allWorkerSkills, rowNum)
                ELSE <<>>)
            \o PhasesCheck(Get(row, "PreferredPhases"), JSONparse(Get(row, "PreferredPhases")),
                           rowNum),
            SeenAfter(Get(row, "TaskID"), seen))

RECURSIVE TaskRows(_, _, _, _, _)
TaskRows(data, index, workers, allWorkerSkills, acc) ==
    IF index > Len(data) \/ acc.threw THEN acc
    ELSE TaskRows(data, index + 1, workers, allWorkerSkills,
             TaskRow(data[index], index, workers, allWorkerSkills, acc.errors, acc.seen))

\* workersEntity?.data, nothing when there is no workers entity
WorkersData(allEntities, w) == IF w = 0 THEN <<>> ELSE allEntities[w].data

\* validateTasks once the workers are looked up; collecting the worker
\* skills throws on a numeric Skills cell, before any row is looked at
TasksAgainst(entity, workers, previousSeen) ==
    IF \E k \in DOMAIN workers : SplitThrows(Get(workers[k], "Skills"))
    THEN Outcome(TRUE, <<>>, NewSeenIds(previousSeen))
    ELSE TaskRows(entity.data, 1, workers,
             UNION {SkillsOf(Get(workers[k], "Skills")) : k \in DOMAIN workers},
             Outcome(FALSE, checkRequiredColumns(entity, TaskRequiredColumns, <<>>),
                     NewSeenIds(previousSeen)))

validateTasks(entity, allEntities, previousSeen) ==
    TasksAgainst(entity, WorkersData(allEntities, findByType(allEntities, "workers")),
                 previousSeen)

validateEntity(entity, allEntities, previousSeen) ==
    CASE entity.type = "clients" -> validateClients(entity, allEntities, previousSeen)
      [] entity.type = "workers" -> validateWorkers(entity, allEntities, previousSeen)
      [] entity.type = "tasks" -> validateTasks(entity, allEntities, previousSeen)
      [] OTHER -> Outcome(FALSE, <<>>, previousSeen)

\* ------------------------------------------------------------------------
\* validatePhaseSlotSaturation
\* ------------------------------------------------------------------------
\* phaseCapacity and phaseDemand are objects: a sequence of <<key, value>>
\* in insertion order, the key being String(phase).

HasKey(obj, key) == \E k \in DOMAIN obj : obj[k][1] = key

\* obj[key], NaN standing for undefined (both are falsy and compare false)
Lookup(obj, key) ==
    IF HasKey(obj, key) THEN obj[CHOOSE k \in DOMAIN obj : obj[k][1] = key][2] ELSE NaN

\* (prev || 0) + amount : NaN and 0 are falsy, x + NaN is NaN
PlusOrZero(prev, amount) ==
    IF amount.nan THEN NaN ELSE Int_((IF prev.nan THEN 0 ELSE prev.n) + amount.n)

\* obj[key] = (obj[key] || 0) + amount
AddTo(obj, key, amount) ==
    IF HasKey(obj, key)
    THEN [k \in DOMAIN obj |->
             IF obj[k][1] = key THEN <<key, PlusOrZero(obj[k][2], amount)>> ELSE obj[k]]
    ELSE Append(obj, <<key, PlusOrZero(NaN, amount)>>)

\* phases.forEach(phase => obj[phase] = (obj[phase] || 0) + amount)
RECURSIVE AddAll(_, _, _, _)
AddAll(obj, items, j, amount) ==
    IF j > Len(items) THEN obj
    ELSE AddAll(AddTo(obj, JToStr(items[j]), amount), items, j + 1, amount)

\* parseInt(cell) || 0
OrZero(m) == IF isNaN(m) THEN Int_(0) ELSE m

\* parseInt(cell) || 1
OrOne(m) == IF isNaN(m) \/ m.n = 0 THEN Int_(1) ELSE m

\* one worker of the capacity loop: r is JSON.parse of the cell; a value
\* without forEach throws inside the try and the worker is skipped
WorkerCapacity(phaseCapacity, slotsCell, r, maxLoadCell) ==
    IF Truthy(slotsCell) /\ r.ok /\ ArrayIsArray(r.v)
    THEN AddAll(phaseCapacity, r.v.items, 1, OrOne(parseInt(maxLoadCell)))
    ELSE phaseCapacity

RECURSIVE CapacityFrom(_, _, _)
CapacityFrom(workers, k, phaseCapacity) ==
    IF k > Len(workers) THEN phaseCapacity
    ELSE CapacityFrom(workers, k + 1,
             WorkerCapacity(phaseCapacity, Get(workers[k], "AvailableSlots"),
                            JSONparse(Get(workers[k], "AvailableSlots")),
                            Get(workers[k], "MaxLoadPerPhase")))

\* one task of the demand loop: r is JSON.parse of the PreferredPhases cell
TaskDemand(acc, index, phasesCell, r, durationCell) ==
    IF ~(Truthy(phasesCell) /\ Truthy(durationCell)) THEN acc
    ELSE IF r.ok /\ ArrayIsArray(r.v)
    THEN [acc EXCEPT !.demand = AddAll(@, r.v.items, 1, parseInt(durationCell))]
    ELSE [acc EXCEPT !.errors =
             Append(@, ValidationError(index, "PreferredPhases", "phase_slot_saturation",
                 Message("Cannot calculate phase demand due to malformed PreferredPhases",
                         <<>>), "warning"))]

RECURSIVE DemandFrom(_, _, _)
DemandFrom(tasks, index, acc) ==
    IF index > Len(tasks) THEN acc
    ELSE DemandFrom(tasks, index + 1,
             TaskDemand(acc, index, Get(tasks[index], "PreferredPhases"),
                        JSONparse(Get(tasks[index], "PreferredPhases")),
                        Get(tasks[index], "Duration")))

\* an array-index property key: a canonical non-negative integer
IsIndexKey(key) ==
    /\ key # <<>>
    /\ \A k \in DOMAIN key : IsDigit(key[k])
    /\ (Len(key) > 1 => key[1] # "0")

\* index keys in ascending numeric order
RECURSIVE SortedIndexKeys(_)
SortedIndexKeys(keys) ==
    IF keys = {} THEN <<>>
    ELSE LET Least(m) == <<m>> \o SortedIndexKeys(keys \ {m})
         IN  Least(CHOOSE a \in keys :
                       \A b \in keys : DigitsVal(a, 1, 0) <= DigitsVal(b, 1, 0))

\* Object.keys(obj): index keys in ascending numeric order, then the other
\* keys in insertion order
ObjectKeys(obj) ==
    SortedIndexKeys({obj[k][1] : k \in {j \in DOMAIN obj : IsIndexKey(obj[j][1])}})
    \o SelectSeq([k \in DOMAIN obj |-> obj[k][1]], LAMBDA key : ~IsIndexKey(key))

\* if (demand > capacity) errors.push(...), capacity being (cap || 0)
SaturationCheck(pkey, demand, cap) ==
    PushIf(~demand.nan /\ demand.n > (IF cap.nan THEN 0 ELSE cap.n),
           ValidationError(1, "Phase Analysis", "phase_slot_saturation",
               Message("Phase is oversaturated: demand > capacity",
                       <<pkey, NumToStr(demand), IntToStr(IF cap.nan THEN 0 ELSE cap.n)>>),
               "warning"))

\* one key of the saturation loop: pkey is String(parseInt(phaseStr))
SaturationAt(pkey, phaseDemand, phaseCapacity) ==
    SaturationCheck(pkey, Lookup(phaseDemand, pkey), Lookup(phaseCapacity, pkey))

RECURSIVE SaturationFrom(_, _, _, _)
SaturationFrom(keys, j, phaseDemand, phaseCapacity) ==
    IF j > Len(keys) THEN <<>>
    ELSE SaturationAt(NumToStr(parseIntStr(keys[j])), phaseDemand, phaseCapacity)
         \o SaturationFrom(keys, j + 1, phaseDemand, phaseCapacity)

\* the result once both loops have run: d holds the demand object and the
\* warnings of the catch block
SaturationResult(d, phaseCapacity) ==
    d.errors \o SaturationFrom(ObjectKeys(d.demand), 1, d.demand, phaseCapacity)

SaturationOf(tasks, workers) ==
    SaturationResult(DemandFrom(tasks, 1, [demand |-> <<>>, errors |-> <<>>]),
                     CapacityFrom(workers, 1, <<>>))

\* t, w: the positions of the first tasks and workers entity, 0 if none
SaturationBetween(allEntities, t, w) ==
    IF t = 0 \/ w = 0 THEN <<>>
    ELSE SaturationOf(allEntities[t].data, allEntities[w].data)

validatePhaseSlotSaturation(allEntities) ==
    SaturationBetween(allEntities, findByType(allEntities, "tasks"),
                      findByType(allEntities, "workers"))

\* ------------------------------------------------------------------------
\* Bounded inputs: the rows of the dropped files
\* ------------------------------------------------------------------------

\* rows per entity when the ID column varies
MaxRows == 3

\* rows per entity when the phase columns vary
MaxPhaseRows == 2

\* client rows when the priority and reference columns vary
MaxClientRows == 1

Kinds == {"clients", "workers", "tasks"}

\* the row with cell f set to v; an undefined cell is a missing key
SetCell(row, f, v) ==
    IF v = Undefined THEN [k \in (DOMAIN row) \ {f} |-> row[k]]
    ELSE [k \in (DOMAIN row) \cup {f} |-> IF k = f THEN v ELSE row[k]]

BaseClient ==
    [ClientID |-> Str(<<"C", "1">>), ClientName |-> Str(<<"A", "c", "m", "e">>), PriorityLevel |-> Str(<<"3">>),
     RequestedTaskIDs |-> Str(<<"T", "1">>), GroupTag |-> Str(<<"G", "r", "o", "u", "p", "A">>)]

BaseWorker ==
    [WorkerID |-> Str(<<"W", "1">>), WorkerName |-> Str(<<"A", "n", "n">>), Skills |-> Str(<<"j", "s", ",", "g", "o">>),
     AvailableSlots |-> Str(<<"[", "1", ",", "2", "]">>), MaxLoadPerPhase |-> Str(<<"2">>)]

BaseTask ==
    [TaskID |-> Str(<<"T", "1">>), TaskName |-> Str(<<"B", "u", "i", "l", "d">>), Duration |-> Str(<<"2">>),
     RequiredSkills |-> Str(<<"j", "s">>), MaxConcurrent |-> Str(<<"1">>)]

BaseRow(kind) ==
    CASE kind = "clients" -> BaseClient
      [] kind = "workers" -> BaseWorker
      [] OTHER -> BaseTask

IdColumn(kind) ==
    CASE kind = "clients" -> "ClientID"
      [] kind = "workers" -> "WorkerID"
      [] OTHER -> "TaskID"

\* ID cells: two text IDs, an empty cell, a missing key, a numeric cell
IdSamples == {Str(<<"A">>), Str(<<"B">>), Str(<<>>), Undefined, Num(1)}

\* a row whose list cell is a numeric spreadsheet cell
NumericListRows(kind) ==
    CASE kind = "clients" ->
            {SetCell(SetCell(BaseClient, "ClientID", Str(<<"A">>)), "RequestedTaskIDs", Num(7))}
      [] kind = "tasks" ->
            {SetCell(SetCell(BaseTask, "TaskID", Str(<<"A">>)), "RequiredSkills", Num(7))}
      [] OTHER -> {}

IdRows(kind) ==
    {SetCell(BaseRow(kind), IdColumn(kind), v) : v \in IdSamples} \cup NumericListRows(kind)

PrioritySamples ==
    {Str(<<"3">>), Str(<<"7">>), Str(<<"0">>), Str(<<"5">>), Str(<<"1">>), Str(<<"x">>), Str(<<"3", "x">>),
     Str(<<" ", "4">>), Str(<<"-", "1">>), Str(<<>>), Num(3), Num(7), Undefined}

RequestedSamples ==
    {Str(<<"T", "1", ",", "T", "9">>), Str(<<"T", "1">>), Str(<<" ", "T", "1", " ", ",", " ", "T", "9", " ">>), Str(<<"T", "9", ",", "T", "9">>), Str(<<"T", "1", ",">>),
     Str(<<"7">>), Str(<<>>), Num(7), Undefined}

\* AttributesJSON cells: objects, other JSON values, broken JSON, a numeric cell
AttributesSamples ==
    {Str(<<"{", "}">>), Str(<<"{", "\"", "a", "\"", ":", " ", "1", "}">>), Str(<<"5">>), Str(<<"[", "1", "]">>), Str(<<"\"", "s", "\"">>), Str(<<"n", "u", "l", "l">>),
     Str(<<"{", "a">>), Str(<<"{", "\"", "a", "\"", ":", " ", "}">>), Num(5)}

ClientAspectRows ==
    {SetCell(BaseClient, "PriorityLevel", v) : v \in PrioritySamples}
    \cup {SetCell(BaseClient, "AttributesJSON", v) : v \in AttributesSamples}
    \cup {SetCell(BaseClient, "RequestedTaskIDs", v) : v \in RequestedSamples}
    \cup {SetCell(SetCell(BaseClient, "PriorityLevel", Str(<<"7">>)), "RequestedTaskIDs", Num(7))}

\* the task collections a client's references are resolved against
TaskIdLists ==
    {<<Str(<<"T", "1">>)>>, <<Str(<<"T", "1">>), Str(<<"T", "9">>)>>, <<Num(7)>>, <<Str(<<"7">>), Str(<<"T", "1">>)>>}

PhaseWorker(slots, maxLoad) ==
    SetCell(SetCell(BaseWorker, "AvailableSlots", slots), "MaxLoadPerPhase", maxLoad)

PhaseTask(phases, duration) ==
    SetCell(SetCell(BaseTask, "PreferredPhases", phases), "Duration", duration)

PhaseWorkerRows ==
    {PhaseWorker(Str(<<"[", "1", ",", "2", "]">>), Str(<<"3">>)),
     PhaseWorker(Str(<<"[", "2", "]">>), Str(<<"0">>)),
     PhaseWorker(Str(<<"[", "2", ",", "2", "]">>), Num(1)),
     PhaseWorker(Num(2), Str(<<"2">>))}

PhaseTaskRows ==
    {PhaseTask(Str(<<"[", "2", "]">>), Str(<<"5">>)),
     PhaseTask(Str(<<"[", "1", ",", " ", "2", "]">>), Num(2)),
     PhaseTask(Str(<<"1", ",", "2">>), Str(<<"2">>)),
     PhaseTask(Str(<<"[", "2", "]">>), Str(<<>>)),
     PhaseTask(Str(<<"[", "3", "]">>), Str(<<"x">>))}

\* a task with a phase list that is no JSON, its Duration varying
UnparsedPhaseTasks ==
    {PhaseTask(Str(<<"1", ",", "2">>), d) : d \in {Str(<<"2">>), Str(<<>>), Num(0), Undefined}}

\* workers and tasks whose skills vary
SkillWorkerRows ==
    {SetCell(BaseWorker, "Skills", v) : v \in {Str(<<"j", "s", ",", "g", "o">>), Str(<<" ", "r", "u", "s", "t", " ">>), Num(5)}}

SkillTaskRows ==
    {SetCell(SetCell(BaseTask, "RequiredSkills", rs), "MaxConcurrent", mc) :
        rs \in {Str(<<"j", "s">>), Str(<<"j", "s", ",", " ", "r", "u", "s", "t">>), Str(<<"r", "u", "s", "t", ",", "c", "o", "b", "o", "l">>), Str(<<" ", "g", "o", " ">>), Str(<<>>)},
        mc \in {Str(<<"1">>), Str(<<"2">>), Str(<<"x">>)}}

\* phase lists that are arrays but not of positive integers
OddPhaseLists == {Str(<<"[", "1", ".", "5", "]">>), Str(<<"[", "1", ",", "1", ".", "5", "]">>), Str(<<"[", "\\", "\"", "2", "\\", "\"", ",", "2", "]">>), Str(<<"[", "-", "1", "]">>), Str(<<"[", "[", "1", "]", ",", "0", "]">>)}

Entity(kind, rows) == DataEntity([type |-> kind, time |-> 0], kind, rows)

NonEmptySeqUpTo(S, n) == SeqUpTo(S, n) \ {<<>>}

Inputs ==
    \* one file, the ID column varying
    {<<Entity(kind, rows)>> : kind \in Kinds, rows \in {<<>>}} 
    \cup UNION {{<<Entity(kind, rows)>> : rows \in NonEmptySeqUpTo(IdRows(kind), MaxRows)}
                   : kind \in Kinds}
    \* a clients file, alone or with a tasks file
    \cup {<<Entity("clients", rows)>> : rows \in NonEmptySeqUpTo(ClientAspectRows, MaxClientRows)}
    \cup {<<Entity("clients", rows),
            Entity("tasks", [k \in DOMAIN ids |-> SetCell(BaseTask, "TaskID", ids[k])])>> :
             rows \in NonEmptySeqUpTo(ClientAspectRows, MaxClientRows), ids \in TaskIdLists}
    \* a workers and a tasks file, the phase columns varying
    \cup {<<Entity("workers", ws), Entity("tasks", ts)>> :
             ws \in SeqUpTo(PhaseWorkerRows, MaxPhaseRows),
             ts \in SeqUpTo(PhaseTaskRows, MaxPhaseRows)}
    \cup {<<Entity("tasks", ts)>> : ts \in NonEmptySeqUpTo(PhaseTaskRows, MaxPhaseRows)}
    \cup {<<Entity("tasks", <<PhaseTask(tp, Str(<<"2">>))>>),
            Entity("workers", <<PhaseWorker(wp, Str(<<"1">>))>>)>> :
             tp \in OddPhaseLists, wp \in OddPhaseLists \cup {Str(<<"[", "1", "]">>)}}
    \* a workers file whose slot list and load are both invalid
    \cup {<<Entity("workers", <<PhaseWorker(wp, Str(<<"0">>)), BaseWorker>>)>> :
             wp \in OddPhaseLists}
    \* a tasks file whose phase list is no JSON, with a workers file
    \cup {<<Entity("workers", <<BaseWorker>>), Entity("tasks", <<BaseTask, ts>>)>> :
             ts \in UnparsedPhaseTasks}
    \* a tasks and a workers file, the skills varying
    \cup {<<Entity("tasks", <<ts>>), Entity("workers", ws)>> :
             ts \in SkillTaskRows, ws \in SeqUpTo(SkillWorkerRows, MaxPhaseRows)}
    \* two tasks files in one drop
    \cup {<<Entity("tasks", <<ts>>), Entity("workers", <<ws>>), Entity("tasks", <<ts2>>)>> :
             ts \in PhaseTaskRows, ws \in PhaseWorkerRows, ts2 \in {PhaseTask(Str(<<"[", "1", "]">>), Str(<<"9">>))}}
    \* a tasks file without a TaskName column, with a workers file without rows
    \cup {<<Entity("workers", <<>>),
            Entity("tasks", <<SetCell(PhaseTask(Str(<<"[", "2", "]">>), Str(<<"5">>)), "TaskName", Undefined),
                              PhaseTask(Str(<<"1", ",", "2">>), Str(<<"2">>))>>)>>}


\* ------------------------------------------------------------------------
\* FileUpload.onDrop and the state machine of the validation calls
\* ------------------------------------------------------------------------

NoCall == [called |-> FALSE, threw |-> FALSE, errors |-> <<>>]

\* what a call handed back: the returned sequence, or the escaped TypeError
Returned(threw, errors) ==
    [called |-> TRUE, threw |-> threw, errors |-> IF threw THEN <<>> ELSE errors]

\* a filter that keeps every diagnostic
KeepEverySeverity(errors, severity) == errors

\* errors.filter(e => e.severity === severity)
filterSeverity(errors, severity) == SelectSeq(errors, LAMBDA e : e.severity = severity)

\* {...entity, errors: errors.filter(error), warnings: errors.filter(warning)}
WithDiagnostics(entity, errors) ==
    [entity EXCEPT !.errors = filterSeverity(errors, "error"),
                   !.warnings = filterSeverity(errors, "warning")]

\* uploadedEntities.map(entity => ...), stopping at the call that throws
RECURSIVE ValidateAll(_, _, _)
ValidateAll(entities, i, acc) ==
    LET Step(out) ==
            [threw |-> out.threw, seen |-> out.seen,
             list |-> Append(acc.list, WithDiagnostics(entities[i], out.errors))]
    IN  IF i > Len(entities) \/ acc.threw THEN acc
        ELSE ValidateAll(entities, i + 1, Step(validateEntity(entities[i], entities, acc.seen)))

\* the cross-entity diagnostics pushed to every entity of the drop
PushToEveryEntity(validatedEntities, phaseSlotErrors, t) ==
    [k \in DOMAIN validatedEntities |->
        [validatedEntities[k] EXCEPT
            !.warnings = @ \o filterSeverity(phaseSlotErrors, "warning"),
            !.errors = @ \o filterSeverity(phaseSlotErrors, "error")]]

\* tasksEntity.warnings.push(...), tasksEntity.errors.push(...) on the
\* first tasks entity
PushPhaseErrors(validatedEntities, phaseSlotErrors, t) ==
    IF Len(phaseSlotErrors) > 0 /\ t # 0
    THEN [validatedEntities EXCEPT
             ![t].warnings = @ \o filterSeverity(phaseSlotErrors, "warning"),
             ![t].errors = @ \o filterSeverity(phaseSlotErrors, "error")]
    ELSE validatedEntities

\* the cross-entity step of onDrop
AddPhaseErrors(validatedEntities) ==
    PushPhaseErrors(validatedEntities, validatePhaseSlotSaturation(validatedEntities),
                    findByType(validatedEntities, "tasks"))

NoSearch == [called |-> FALSE, query |-> <<>>, results |-> <<>>]

\* the useState initialisers of SearchPanel
SearchPanelInit ==
    /\ searchQuery = <<>>
    /\ searchResults = <<>>
    /\ isSearching = FALSE
    /\ queryInsights = ""
    /\ inFlight = <<>>
    /\ searched = NoSearch

NoInterpretation == [called |-> FALSE, text |-> <<>>]

\* editingCell === null
NoCell == [editing |-> FALSE, row |-> 0, column |-> "", value |-> <<>>]

\* the useState initialisers of a DataGrid, one grid per entity
DataGridInit(entities) ==
    /\ searchTerm = [k \in DOMAIN entities |-> <<>>]
    /\ editingCell = [k \in DOMAIN entities |-> NoCell]
    /\ clicked = [k \in DOMAIN entities |-> 0]

\* the useState initialisers of Index and of the PrioritizationPanel: no
\* rule, the empty weight mapping {}
IndexInit(tab) ==
    /\ activeTab = tab
    /\ businessRules = <<>>
    /\ priorityWeights = <<>>
    /\ localWeights = <<>>
    /\ now = 0

\* the useState initialisers of RuleBuilder
RuleBuilderInit ==
    /\ selectedRuleType = ""
    /\ ruleName = <<>>
    /\ ruleDescription = <<>>
    /\ ruleParameters = <<>>
    /\ naturalLanguageRule = <<>>
    /\ toasted = ""
    /\ interpreted = NoInterpretation

Init ==
    /\ uploadedEntities \in Inputs
    /\ seenIds = {}
    /\ results = [i \in DOMAIN uploadedEntities |-> NoCall]
    /\ earlier = [i \in DOMAIN uploadedEntities |-> NoCall]
    /\ phaseResult = NoCall
    /\ uploadedData = <<>>
    /\ SearchPanelInit
    /\ RuleBuilderInit
    /\ IndexInit("upload")
    /\ DataGridInit(uploadedData)

\* ValidationService.validateEntity(entity, allEntities) on the i-th entity
ValidateEntityCall(i) ==
    LET Return(out) ==
            /\ results' = [results EXCEPT ![i] = Returned(out.threw, out.errors)]
            /\ earlier' = [earlier EXCEPT ![i] = results[i]]
            /\ seenIds' = out.seen
    IN  /\ Return(validateEntity(uploadedEntities[i], uploadedEntities, seenIds))
        /\ UNCHANGED <<uploadedEntities, phaseResult, uploadedData>>
        /\ UNCHANGED <<queryVars, ruleVars, pageVars>>

\* ValidationService.validatePhaseSlotSaturation(allEntities)
PhaseSaturationCall ==
    /\ phaseResult' = Returned(FALSE, validatePhaseSlotSaturation(uploadedEntities))
    /\ UNCHANGED <<uploadedEntities, seenIds, results, earlier, uploadedData>>
    /\ UNCHANGED <<queryVars, ruleVars, pageVars>>

\* Index.handleDataUpload(data): the new entities are shown by new grids,
\* a DataGrid being keyed by the id of its entity
handleDataUpload(data) ==
    /\ uploadedData' = data
    /\ activeTab' = IF Len(data) > 0 THEN "data" ELSE activeTab
    /\ searchTerm' = [k \in DOMAIN data |-> <<>>]
    /\ editingCell' = [k \in DOMAIN data |-> NoCell]
    /\ clicked' = [k \in DOMAIN data |-> 0]

\* onDrop of the entities built from the files, from the validation step
\* on; a TypeError escaping validateEntity rejects the handler before
\* onDataUpload is reached
DropOf(entities) ==
    LET Finish(all) ==
            /\ seenIds' = all.seen
            /\ IF all.threw THEN UNCHANGED <<uploadedData, activeTab, gridVars>>
               ELSE handleDataUpload(AddPhaseErrors(all.list))
    IN  /\ Len(entities) > 0
        /\ Finish(ValidateAll(entities, 1,
                      [threw |-> FALSE, seen |-> seenIds, list |-> <<>>]))
        /\ UNCHANGED <<queryVars, ruleVars, listVars, weightVars>>

OnDrop ==
    /\ DropOf(uploadedEntities)
    /\ UNCHANGED <<uploadedEntities, results, earlier, phaseResult>>

Next ==
    \/ \E i \in DOMAIN uploadedEntities : ValidateEntityCall(i)
    \/ PhaseSaturationCall
    \/ OnDrop

Spec == Init /\ [][Next]_vars

\* ------------------------------------------------------------------------
\* Properties of the validation engine
\* ------------------------------------------------------------------------

\* the diagnostics of one type that a returned sequence holds for one row
DiagnosticsAt(errors, row, type) ==
    SelectSeq(errors, LAMBDA e : e.row = row /\ e.type = type)

\* C1: a validateEntity call on the same unchanged entity and entity list
\* hands back what the call before it handed back: the same diagnostics in
\* the same order (row, column, type, message, severity); nothing the
\* earlier call left behind, the seen-ID set included, changes the outcome.
C1_ValidateEntityIdempotent ==
    \A i \in DOMAIN results : earlier[i].called => results[i] = earlier[i]

\* a second call on an entity with a repeated ID, after the first call
\* left a non-empty seen-ID set
C1_SecondCallOnDuplicates ==
    \E i \in DOMAIN results :
        /\ earlier[i].called /\ results[i].called /\ ~results[i].threw
        /\ seenIds # {}
        /\ \E k \in DOMAIN results[i].errors : results[i].errors[k].type = "duplicate_id"

\* the diagnostics produced for the i-th entity of the drop: those of
\* validateEntity, and for the first tasks entity those of the phase pass
ProducedFor(i) ==
    results[i].errors
    \o (IF i = findByType(uploadedEntities, "tasks") THEN phaseResult.errors ELSE <<>>)

\* C2: after a validated upload every diagnostic produced for an entity,
\* the phase-saturation diagnostics of the tasks entity included, is in
\* exactly one of its two lists: in errors iff its severity is 'error', in
\* warnings iff its severity is 'warning', never in both, and the lists
\* hold nothing else.
C2_ErrorsWarningsPartition ==
    uploadedData # <<>> =>
        \A i \in DOMAIN uploadedData :
            /\ \A k \in DOMAIN uploadedData[i].errors :
                   uploadedData[i].errors[k].severity = "error"
            /\ \A k \in DOMAIN uploadedData[i].warnings :
                   uploadedData[i].warnings[k].severity = "warning"
            /\ Range(uploadedData[i].errors) \cap Range(uploadedData[i].warnings) = {}
            /\ (results[i].called /\ phaseResult.called) =>
                   /\ \A k \in DOMAIN ProducedFor(i) :
                          /\ ProducedFor(i)[k].severity = "error"
                                 <=> ProducedFor(i)[k] \in Range(uploadedData[i].errors)
                          /\ ProducedFor(i)[k].severity = "warning"
                                 <=> ProducedFor(i)[k] \in Range(uploadedData[i].warnings)
                   /\ Len(uploadedData[i].errors) + Len(uploadedData[i].warnings)
                          = Len(ProducedFor(i))

\* a validated upload whose tasks entity got errors, warnings and
\* phase-saturation diagnostics
C2_MixedSeverities ==
    /\ uploadedData # <<>>
    /\ phaseResult.called /\ phaseResult.errors # <<>>
    /\ \E i \in DOMAIN uploadedData :
           /\ i = findByType(uploadedEntities, "tasks")
           /\ results[i].called
           /\ \E k \in DOMAIN results[i].errors : results[i].errors[k].severity = "error"
           /\ uploadedData[i].errors # <<>>
           /\ uploadedData[i].warnings # <<>>

\* the ID of a row of an entity
RowId(entity, r) == Get(entity.data[r], IdColumn(entity.type))

\* C3: for every entity kind and every sequence of rows, validation emits
\* a duplicate_id error for row r exactly when the ID of row r is non-empty
\* and equals the ID of an earlier row (one such error, none otherwise).
C3_DuplicateIdIffRepeated ==
    \A i \in DOMAIN results :
        results[i].called =>
            \A r \in DOMAIN uploadedEntities[i].data :
                Len(DiagnosticsAt(results[i].errors, r, "duplicate_id"))
                    = IF /\ Truthy(RowId(uploadedEntities[i], r))
                         /\ \E q \in 1..(r - 1) :
                                RowId(uploadedEntities[i], q) = RowId(uploadedEntities[i], r)
                      THEN 1 ELSE 0

\* C4: for every client row, validation emits exactly one invalid_range
\* error on column PriorityLevel when the value does not coerce to an
\* integer or coerces to one outside 1..5, and none when it coerces to an
\* integer in 1..5.
C4_PriorityRange ==
    \A i \in DOMAIN results :
        (results[i].called /\ uploadedEntities[i].type = "clients") =>
            \A r \in DOMAIN uploadedEntities[i].data :
                LET priority == parseInt(Get(uploadedEntities[i].data[r], "PriorityLevel"))
                    found == DiagnosticsAt(results[i].errors, r, "invalid_range")
                IN  /\ \A k \in DOMAIN found :
                           found[k].column = "PriorityLevel" /\ found[k].severity = "error"
                    /\ Len(found) = IF ~priority.nan /\ priority.n \in 1..5 THEN 0 ELSE 1

\* the TaskIDs of the tasks collection, in their string form
TaskIdTexts(entities) ==
    LET t == findByType(entities, "tasks")
    IN  IF t = 0 THEN {}
        ELSE {ToStr(Get(entities[t].data[k], "TaskID")) : k \in DOMAIN entities[t].data}

\* C5: for every client row with a RequestedTaskIDs value, validation
\* emits one unknown_reference error per comma-separated token that is not
\* the TaskID of a row of the tasks collection, naming that token, and
\* none for a token that is the TaskID of an existing task.
C5_UnknownReferencePerToken ==
    \A i \in DOMAIN results :
        (results[i].called /\ uploadedEntities[i].type = "clients") =>
            \A r \in DOMAIN uploadedEntities[i].data :
                LET req == Get(uploadedEntities[i].data[r], "RequestedTaskIDs")
                    found == DiagnosticsAt(results[i].errors, r, "unknown_reference")
                IN  Truthy(req) =>
                        [k \in DOMAIN found |-> found[k].message.args[1]]
                            = SelectSeq(SplitTrim(ToStr(req)),
                                  LAMBDA token : token \notin TaskIdTexts(uploadedEntities))

\* the largest phase index the saturation properties look at
MaxPhase == 4

PhaseIndices == (0 - 1)..MaxPhase

\* how often phase p occurs in a list cell, r being JSON.parse of the cell
OccurrencesIn(cell, r, p) ==
    IF Truthy(cell) /\ r.ok /\ ArrayIsArray(r.v)
    THEN Cardinality({j \in DOMAIN r.v.items :
             NumberIsInteger(r.v.items[j]) /\ JIntVal(r.v.items[j]) = p})
    ELSE 0

Occurrences(cell, p) == OccurrencesIn(cell, JSONparse(cell), p)

\* a cell's integer, 0 when it does not coerce to one
IntegerOrZero(m) == IF m.nan THEN 0 ELSE m.n

\* demand of p as stated: the sum of Duration over the tasks whose
\* PreferredPhases contains p
RECURSIVE StatedDemand(_, _, _)
StatedDemand(tasks, k, p) ==
    IF k > Len(tasks) THEN 0
    ELSE (IF Occurrences(Get(tasks[k], "PreferredPhases"), p) > 0
          THEN IntegerOrZero(parseInt(Get(tasks[k], "Duration"))) ELSE 0)
         + StatedDemand(tasks, k + 1, p)

\* capacity of p as stated: the sum of MaxLoadPerPhase over the workers
\* whose AvailableSlots contains p
RECURSIVE StatedCapacity(_, _, _)
StatedCapacity(workers, k, p) ==
    IF k > Len(workers) THEN 0
    ELSE (IF Occurrences(Get(workers[k], "AvailableSlots"), p) > 0
          THEN IntegerOrZero(parseInt(Get(workers[k], "MaxLoadPerPhase"))) ELSE 0)
         + StatedCapacity(workers, k + 1, p)

\* the rows of the first entity of a type, none when there is no such entity
RowsOfType(entities, type) ==
    IF findByType(entities, type) = 0 THEN <<>>
    ELSE entities[findByType(entities, type)].data

\* the dataset-level diagnostics of a phase pass
PhaseAnalysis(errors) ==
    SelectSeq(errors, LAMBDA e : e.column = "Phase Analysis")

\* the dataset-level diagnostics are well-formed and name only phases in
\* PhaseIndices
PhaseAnalysisShape(errors) ==
    \A k \in DOMAIN PhaseAnalysis(errors) :
        /\ PhaseAnalysis(errors)[k].row = 1
        /\ PhaseAnalysis(errors)[k].type = "phase_slot_saturation"
        /\ PhaseAnalysis(errors)[k].severity = "warning"
        /\ \E p \in PhaseIndices : PhaseAnalysis(errors)[k].message.args[1] = IntToStr(p)

\* the number of dataset-level warnings naming phase p, demand d, capacity c
WarningsNaming(errors, p, d, c) ==
    Cardinality({k \in DOMAIN PhaseAnalysis(errors) :
        PhaseAnalysis(errors)[k].message.args = <<IntToStr(p), IntToStr(d), IntToStr(c)>>})

\* the number of dataset-level warnings naming phase p
WarningsFor(errors, p) ==
    Cardinality({k \in DOMAIN PhaseAnalysis(errors) :
        PhaseAnalysis(errors)[k].message.args[1] = IntToStr(p)})

\* C6 as stated: validatePhaseSlotSaturation returns, for every phase p,
\* exactly one row-1 'Phase Analysis' phase_slot_saturation warning, naming
\* p, its demand and its capacity, iff the demand of p (sum of Duration
\* over tasks whose PreferredPhases contains p) exceeds the capacity of p
\* (sum of MaxLoadPerPhase over workers whose AvailableSlots contains p,
\* 0 when no worker offers p), and none otherwise.
C6_SaturationAsStated ==
    phaseResult.called =>
        /\ PhaseAnalysisShape(phaseResult.errors)
        /\ \A p \in PhaseIndices :
               LET d == StatedDemand(RowsOfType(uploadedEntities, "tasks"), 1, p)
                   c == StatedCapacity(RowsOfType(uploadedEntities, "workers"), 1, p)
               IN  /\ WarningsFor(phaseResult.errors, p) = IF d > c THEN 1 ELSE 0
                   /\ WarningsNaming(phaseResult.errors, p, d, c) = IF d > c THEN 1 ELSE 0

\* the phase cells are lists of integers wherever they parse as arrays
IntegerLists(rows, column) ==
    \A k \in DOMAIN rows :
        LET IntegersIn(cell, r) ==
                (Truthy(cell) /\ r.ok /\ ArrayIsArray(r.v)) =>
                    \A j \in DOMAIN r.v.items : NumberIsInteger(r.v.items[j])
        IN  IntegersIn(Get(rows[k], column), JSONparse(Get(rows[k], column)))

\* every non-empty Duration coerces to an integer
IntegerDurations(tasks) ==
    \A k \in DOMAIN tasks :
        Truthy(Get(tasks[k], "Duration")) => ~isNaN(parseInt(Get(tasks[k], "Duration")))

\* demand of p as computed: Duration once per occurrence of p in the
\* PreferredPhases of each task with a non-empty Duration
RECURSIVE CountedDemand(_, _, _)
CountedDemand(tasks, k, p) ==
    IF k > Len(tasks) THEN 0
    ELSE (IF Truthy(Get(tasks[k], "Duration"))
          THEN Occurrences(Get(tasks[k], "PreferredPhases"), p)
                   * IntegerOrZero(parseInt(Get(tasks[k], "Duration")))
          ELSE 0)
         + CountedDemand(tasks, k + 1, p)

\* MaxLoadPerPhase as the capacity loop reads it: 1 when it is 0 or does
\* not coerce to an integer
LoadOrDefault(m) == IF m.nan \/ m.n = 0 THEN 1 ELSE m.n

\* capacity of p as computed: the load once per occurrence of p in the
\* AvailableSlots of each worker
RECURSIVE CountedCapacity(_, _, _)
CountedCapacity(workers, k, p) ==
    IF k > Len(workers) THEN 0
    ELSE Occurrences(Get(workers[k], "AvailableSlots"), p)
             * LoadOrDefault(parseInt(Get(workers[k], "MaxLoadPerPhase")))
         + CountedCapacity(workers, k + 1, p)

\* C6 as the code has it: with no tasks entity or no workers entity the
\* pass returns nothing; with both, phase lists of integers and Durations
\* that are empty or coerce to an integer, it returns for every phase p
\* exactly one row-1 'Phase Analysis' phase_slot_saturation warning, naming
\* p, its demand and its capacity, iff demand exceeds capacity, where
\* demand adds a task's Duration once per occurrence of p in its
\* PreferredPhases (tasks with an empty Duration add nothing) and capacity
\* adds a worker's MaxLoadPerPhase (1 when that is 0 or no integer) once
\* per occurrence of p in its AvailableSlots.
C6_SaturationAsComputed ==
    phaseResult.called =>
        IF findByType(uploadedEntities, "tasks") = 0
               \/ findByType(uploadedEntities, "workers") = 0
        THEN phaseResult.errors = <<>>
        ELSE (/\ IntegerLists(RowsOfType(uploadedEntities, "tasks"), "PreferredPhases")
              /\ IntegerLists(RowsOfType(uploadedEntities, "workers"), "AvailableSlots")
              /\ IntegerDurations(RowsOfType(uploadedEntities, "tasks")))
             => /\ PhaseAnalysisShape(phaseResult.errors)
                /\ \A p \in PhaseIndices :
                       LET d == CountedDemand(RowsOfType(uploadedEntities, "tasks"), 1, p)
                           c == CountedCapacity(RowsOfType(uploadedEntities, "workers"), 1, p)
                       IN  /\ WarningsFor(phaseResult.errors, p) = IF d > c THEN 1 ELSE 0
                           /\ WarningsNaming(phaseResult.errors, p, d, c)
                                  = IF d > c THEN 1 ELSE 0

\* the pass has run on workers offering capacity 3 in phase 2 and tasks
\* demanding 5 there, and returned the one warning naming 2, 5 and 3
C6_DemandFiveCapacityThree ==
    /\ phaseResult.called
    /\ CountedDemand(RowsOfType(uploadedEntities, "tasks"), 1, 2) = 5
    /\ CountedCapacity(RowsOfType(uploadedEntities, "workers"), 1, 2) = 3
    /\ WarningsNaming(phaseResult.errors, 2, 5, 3) = 1

\* ------------------------------------------------------------------------
\* Regular expressions of the query patterns
\* ------------------------------------------------------------------------
\* A pattern is a sequence of items: an alternation of literal texts
\* (?:a|b), a greedy run \w+ \s+ \d+ .+ (captured or not), or an optional
\* group (?:...)?.  Matching is the backtracking search of String.match:
\* the leftmost start, at each item the first alternative or the longest
\* run that lets the rest of the pattern match.  All patterns carry /i.

Lit(alts) == [kind |-> "alt", alts |-> alts, class |-> "", cap |-> FALSE, sub |-> <<>>]

Run(class, cap) == [kind |-> "run", alts |-> <<>>, class |-> class, cap |-> cap, sub |-> <<>>]

Opt(sub) == [kind |-> "opt", alts |-> <<>>, class |-> "", cap |-> FALSE, sub |-> sub]

ClassHas(class, c) ==
    CASE class = "w" -> IsWord(c)
      [] class = "s" -> IsSpace(c)
      [] class = "d" -> IsDigit(c)
      [] OTHER -> TRUE

\* the length of the longest run of class characters of s from pos
RECURSIVE RunLength(_, _, _)
RunLength(s, pos, class) ==
    IF pos <= Len(s) /\ ClassHas(class, s[pos]) THEN 1 + RunLength(s, pos + 1, class)
    ELSE 0

\* a literal at pos, letters compared without case
LiteralAt(s, pos, text) ==
    /\ pos + Len(text) - 1 <= Len(s)
    /\ \A k \in 1..Len(text) : LowerChar(s[pos + k - 1]) = LowerChar(text[k])

NoMatch == [ok |-> FALSE, caps |-> <<>>, start |-> 0, end |-> 0]

\* the first alternative of the backtracking search that succeeds
FirstOf(r, other) == IF r.ok THEN r ELSE other

\* match items[k..] of a pattern at pos; caps are the groups captured so
\* far, end the position after the match
RECURSIVE MatchFrom(_, _, _, _, _)
RECURSIVE TryAlts(_, _, _, _, _, _)
RECURSIVE TryLengths(_, _, _, _, _, _)

MatchFrom(items, k, s, pos, caps) ==
    IF k > Len(items) THEN [ok |-> TRUE, caps |-> caps, start |-> 0, end |-> pos]
    ELSE IF items[k].kind = "alt" THEN TryAlts(items, k, s, pos, caps, 1)
    ELSE IF items[k].kind = "run"
    THEN TryLengths(items, k, s, pos, caps, RunLength(s, pos, items[k].class))
    ELSE FirstOf(MatchFrom(items[k].sub \o SubSeq(items, k + 1, Len(items)), 1, s, pos, caps),
                 MatchFrom(items, k + 1, s, pos, caps))

TryAlts(items, k, s, pos, caps, a) ==
    IF a > Len(items[k].alts) THEN NoMatch
    ELSE FirstOf(IF LiteralAt(s, pos, items[k].alts[a])
                 THEN MatchFrom(items, k + 1, s, pos + Len(items[k].alts[a]), caps)
                 ELSE NoMatch,
                 TryAlts(items, k, s, pos, caps, a + 1))

TryLengths(items, k, s, pos, caps, m) ==
    IF m < 1 THEN NoMatch
    ELSE FirstOf(MatchFrom(items, k + 1, s, pos + m,
                     IF items[k].cap THEN Append(caps, Slice(s, pos, pos + m)) ELSE caps),
                 TryLengths(items, k, s, pos, caps, m - 1))

\* the match found at start, with its start position
MatchAt(r, start) == [r EXCEPT !.start = start]

\* String.prototype.match(regexp) without /g, searching from position start
RECURSIVE SearchFrom(_, _, _)
SearchFrom(items, s, start) ==
    IF start > Len(s) + 1 THEN NoMatch
    ELSE FirstOf(MatchAt(MatchFrom(items, 1, s, start, <<>>), start),
                 SearchFrom(items, s, start + 1))

match(s, items) == SearchFrom(items, s, 1)

\* String.prototype.split(regexp) for a pattern that matches no empty text
RECURSIVE SplitAt(_, _, _, _)
SplitAt(s, items, pos, m) ==
    IF ~m.ok THEN <<Slice(s, pos, Len(s) + 1)>>
    ELSE <<Slice(s, pos, m.start)>> \o SplitAt(s, items, m.end, SearchFrom(items, s, m.end))

splitRegExp(s, items) == SplitAt(s, items, 1, SearchFrom(items, s, 1))

\* /(?:all|find|show|get)\s+(\w+)\s+(?:with|having|where)\s+(.+)/i
ConditionPattern ==
    <<Lit(<<<<"a", "l", "l">>, <<"f", "i", "n", "d">>, <<"s", "h", "o", "w">>, <<"g", "e", "t">>>>), Run("s", FALSE), Run("w", TRUE),
      Run("s", FALSE), Lit(<<<<"w", "i", "t", "h">>, <<"h", "a", "v", "i", "n", "g">>, <<"w", "h", "e", "r", "e">>>>), Run("s", FALSE),
      Run("any", TRUE)>>

\* /(\w+)\s+(?:with|having)\s+(\w+)\s+(?:more than|greater than|>)\s+(\d+)/i
GreaterPattern ==
    <<Run("w", TRUE), Run("s", FALSE), Lit(<<<<"w", "i", "t", "h">>, <<"h", "a", "v", "i", "n", "g">>>>), Run("s", FALSE),
      Run("w", TRUE), Run("s", FALSE), Lit(<<<<"m", "o", "r", "e", " ", "t", "h", "a", "n">>, <<"g", "r", "e", "a", "t", "e", "r", " ", "t", "h", "a", "n">>, <<">">>>>),
      Run("s", FALSE), Run("d", TRUE)>>

\* /(\w+)\s+(?:with|having)\s+(\w+)\s+(?:less than|fewer than|<)\s+(\d+)/i
LessPattern ==
    <<Run("w", TRUE), Run("s", FALSE), Lit(<<<<"w", "i", "t", "h">>, <<"h", "a", "v", "i", "n", "g">>>>), Run("s", FALSE),
      Run("w", TRUE), Run("s", FALSE), Lit(<<<<"l", "e", "s", "s", " ", "t", "h", "a", "n">>, <<"f", "e", "w", "e", "r", " ", "t", "h", "a", "n">>, <<"<">>>>),
      Run("s", FALSE), Run("d", TRUE)>>

\* /(\w+)\s+(?:with|having)\s+(\w+)\s+(?:equal to|equals|=)\s+(.+)/i
EqualPattern ==
    <<Run("w", TRUE), Run("s", FALSE), Lit(<<<<"w", "i", "t", "h">>, <<"h", "a", "v", "i", "n", "g">>>>), Run("s", FALSE),
      Run("w", TRUE), Run("s", FALSE), Lit(<<<<"e", "q", "u", "a", "l", " ", "t", "o">>, <<"e", "q", "u", "a", "l", "s">>, <<"=">>>>),
      Run("s", FALSE), Run("any", TRUE)>>

\* /(\w+)\s+(?:in|from)\s+(?:group|team)\s+(\w+)/i
GroupPattern ==
    <<Run("w", TRUE), Run("s", FALSE), Lit(<<<<"i", "n">>, <<"f", "r", "o", "m">>>>), Run("s", FALSE),
      Lit(<<<<"g", "r", "o", "u", "p">>, <<"t", "e", "a", "m">>>>), Run("s", FALSE), Run("w", TRUE)>>

\* /(\w+)\s+(?:available|working)\s+(?:in|during)\s+phase\s+(\d+)(?:\s+and\s+(\d+))?/i
PhasePattern ==
    <<Run("w", TRUE), Run("s", FALSE), Lit(<<<<"a", "v", "a", "i", "l", "a", "b", "l", "e">>, <<"w", "o", "r", "k", "i", "n", "g">>>>), Run("s", FALSE),
      Lit(<<<<"i", "n">>, <<"d", "u", "r", "i", "n", "g">>>>), Run("s", FALSE), Lit(<<<<"p", "h", "a", "s", "e">>>>), Run("s", FALSE),
      Run("d", TRUE),
      Opt(<<Run("s", FALSE), Lit(<<<<"a", "n", "d">>>>), Run("s", FALSE), Run("d", TRUE)>>)>>

\* /(\w+)\s+(?:requiring|needing|with)\s+(?:skill|skills)\s+(.+)/i
SkillPattern ==
    <<Run("w", TRUE), Run("s", FALSE), Lit(<<<<"r", "e", "q", "u", "i", "r", "i", "n", "g">>, <<"n", "e", "e", "d", "i", "n", "g">>, <<"w", "i", "t", "h">>>>),
      Run("s", FALSE), Lit(<<<<"s", "k", "i", "l", "l">>, <<"s", "k", "i", "l", "l", "s">>>>), Run("s", FALSE), Run("any", TRUE)>>

\* /\s+(?:or|and)\s+/
OrAndPattern == <<Run("s", FALSE), Lit(<<<<"o", "r">>, <<"a", "n", "d">>>>), Run("s", FALSE)>>

\* /(\d+)/
NumberPattern == <<Run("d", TRUE)>>

\* ------------------------------------------------------------------------
\* SearchPanel: the query processors
\* ------------------------------------------------------------------------

\* the characters of a column name
ColumnText ==
    [ClientID |-> <<"C", "l", "i", "e", "n", "t", "I", "D">>, ClientName |-> <<"C", "l", "i", "e", "n", "t", "N", "a", "m", "e">>,
     PriorityLevel |-> <<"P", "r", "i", "o", "r", "i", "t", "y", "L", "e", "v", "e", "l">>, RequestedTaskIDs |-> <<"R", "e", "q", "u", "e", "s", "t", "e", "d", "T", "a", "s", "k", "I", "D", "s">>,
     GroupTag |-> <<"G", "r", "o", "u", "p", "T", "a", "g">>, AttributesJSON |-> <<"A", "t", "t", "r", "i", "b", "u", "t", "e", "s", "J", "S", "O", "N">>,
     WorkerID |-> <<"W", "o", "r", "k", "e", "r", "I", "D">>, WorkerName |-> <<"W", "o", "r", "k", "e", "r", "N", "a", "m", "e">>, Skills |-> <<"S", "k", "i", "l", "l", "s">>,
     AvailableSlots |-> <<"A", "v", "a", "i", "l", "a", "b", "l", "e", "S", "l", "o", "t", "s">>, MaxLoadPerPhase |-> <<"M", "a", "x", "L", "o", "a", "d", "P", "e", "r", "P", "h", "a", "s", "e">>,
     WorkerGroup |-> <<"W", "o", "r", "k", "e", "r", "G", "r", "o", "u", "p">>, QualificationLevel |-> <<"Q", "u", "a", "l", "i", "f", "i", "c", "a", "t", "i", "o", "n", "L", "e", "v", "e", "l">>,
     TaskID |-> <<"T", "a", "s", "k", "I", "D">>, TaskName |-> <<"T", "a", "s", "k", "N", "a", "m", "e">>, Category |-> <<"C", "a", "t", "e", "g", "o", "r", "y">>,
     Duration |-> <<"D", "u", "r", "a", "t", "i", "o", "n">>, RequiredSkills |-> <<"R", "e", "q", "u", "i", "r", "e", "d", "S", "k", "i", "l", "l", "s">>,
     PreferredPhases |-> <<"P", "r", "e", "f", "e", "r", "r", "e", "d", "P", "h", "a", "s", "e", "s">>, MaxConcurrent |-> <<"M", "a", "x", "C", "o", "n", "c", "u", "r", "r", "e", "n", "t">>]

\* the characters of an entity type
KindText(type) ==
    CASE type = "clients" -> <<"c", "l", "i", "e", "n", "t", "s">>
      [] type = "workers" -> <<"w", "o", "r", "k", "e", "r", "s">>
      [] OTHER -> <<"t", "a", "s", "k", "s">>

\* what a processor hands back: the rows it kept, or the TypeError it threw
Rows(rows) == [threw |-> FALSE, rows |-> rows]

Thrown == [threw |-> TRUE, rows |-> <<>>]

\* typeMap[entityType.toLowerCase()], "" when the word is not in the map
typeMap(word) ==
    CASE word \in {<<"c", "l", "i", "e", "n", "t">>, <<"c", "l", "i", "e", "n", "t", "s">>} -> "clients"
      [] word \in {<<"w", "o", "r", "k", "e", "r">>, <<"w", "o", "r", "k", "e", "r", "s">>, <<"e", "m", "p", "l", "o", "y", "e", "e">>, <<"e", "m", "p", "l", "o", "y", "e", "e", "s">>} -> "workers"
      [] word \in {<<"t", "a", "s", "k">>, <<"t", "a", "s", "k", "s">>, <<"j", "o", "b">>, <<"j", "o", "b", "s">>} -> "tasks"
      [] OTHER -> ""

\* entities.find(e => e.type === targetType) || null : its rows, and
\* whether there is such an entity
findEntityByType(entityType, entities) ==
    findByType(entities, typeMap(toLowerCase(entityType)))

\* the skills filter of processCondition
SkillCountRows(data, threshold) ==
    IF \E k \in DOMAIN data : SplitThrows(Get(data[k], "Skills")) THEN Thrown
    ELSE Rows(SelectSeq(data, LAMBDA item :
             /\ Truthy(Get(item, "Skills"))
             /\ Len(split(Get(item, "Skills").s, ",")) > threshold))

\* x > y, x >= y for a number that may be NaN
Above(x, y) == ~x.nan /\ x.n > y

\* processCondition once the target entity is found: number is
\* condition.match(/(\d+)/)
ConditionRows(data, conditionLower, number) ==
    IF includes(conditionLower, <<"p", "r", "i", "o", "r", "i", "t", "y">>) /\ includes(conditionLower, <<"5">>)
    THEN Rows(SelectSeq(data, LAMBDA item :
             Get(item, "PriorityLevel") \in {Num(5), Str(<<"5">>)}))
    ELSE IF includes(conditionLower, <<"h", "i", "g", "h", " ", "p", "r", "i", "o", "r", "i", "t", "y">>)
    THEN Rows(SelectSeq(data, LAMBDA item : Above(parseInt(Get(item, "PriorityLevel")), 3)))
    ELSE IF /\ includes(conditionLower, <<"d", "u", "r", "a", "t", "i", "o", "n">>)
            /\ (includes(conditionLower, <<"m", "o", "r", "e", " ", "t", "h", "a", "n">>)
                    \/ includes(conditionLower, <<"l", "o", "n", "g", "e", "r", " ", "t", "h", "a", "n">>))
            /\ number.ok
    THEN Rows(SelectSeq(data, LAMBDA item :
             Above(parseInt(Get(item, "Duration")), DigitsVal(number.caps[1], 1, 0))))
    ELSE IF /\ includes(conditionLower, <<"s", "k", "i", "l", "l", "s">>)
            /\ includes(conditionLower, <<"m", "o", "r", "e", " ", "t", "h", "a", "n">>)
            /\ number.ok
    THEN SkillCountRows(data, DigitsVal(number.caps[1], 1, 0))
    ELSE Rows(<<>>)

\* the rows of the target entity, t being its position (0: none)
TargetData(entities, t) == IF t = 0 THEN <<>> ELSE entities[t].data

processCondition(entityType, condition, entities) ==
    IF findEntityByType(entityType, entities) = 0 THEN Rows(<<>>)
    ELSE ConditionRows(TargetData(entities, findEntityByType(entityType, entities)),
                       toLowerCase(condition), match(condition, NumberPattern))

\* fieldMap[field.toLowerCase()] || field
fieldMap(field, lower) ==
    CASE lower = <<"p", "r", "i", "o", "r", "i", "t", "y">> -> <<"P", "r", "i", "o", "r", "i", "t", "y", "L", "e", "v", "e", "l">>
      [] lower = <<"d", "u", "r", "a", "t", "i", "o", "n">> -> <<"D", "u", "r", "a", "t", "i", "o", "n">>
      [] lower = <<"s", "k", "i", "l", "l", "s">> -> <<"S", "k", "i", "l", "l", "s">>
      [] lower = <<"l", "o", "a", "d">> -> <<"M", "a", "x", "L", "o", "a", "d", "P", "e", "r", "P", "h", "a", "s", "e">>
      [] lower = <<"c", "o", "n", "c", "u", "r", "r", "e", "n", "t">> -> <<"M", "a", "x", "C", "o", "n", "c", "u", "r", "r", "e", "n", "t">>
      [] OTHER -> field

\* item[actualField]
ItemField(item, actualField) ==
    IF \E k \in DOMAIN item : k \in DOMAIN ColumnText /\ ColumnText[k] = actualField
    THEN item[CHOOSE k \in DOMAIN item : k \in DOMAIN ColumnText /\ ColumnText[k] = actualField]
    ELSE Undefined

\* the switch on the operator
NumberCompare(numValue, operator, value) ==
    /\ ~isNaN(numValue)
    /\ CASE operator = ">" -> numValue.n > value
         [] operator = "<" -> numValue.n < value
         [] operator = "=" -> numValue.n = value
         [] OTHER -> FALSE

\* the filter callback of processComparison
ComparisonKeeps(itemValue, operator, value) ==
    IF itemValue = Undefined THEN FALSE
    ELSE IF IsNumber(value) THEN NumberCompare(parseInt(itemValue), operator, value.n)
    ELSE includes(toLowerCase(ToStr(itemValue)), toLowerCase(ToStr(value)))

processComparison(entityType, field, operator, value, entities) ==
    Rows(SelectSeq(TargetData(entities, findEntityByType(entityType, entities)),
             LAMBDA item :
                 ComparisonKeeps(ItemField(item, fieldMap(field, toLowerCase(field))),
                                 operator, value)))

\* a || b
OrElse(a, b) == IF Truthy(a) THEN a ELSE b

\* item.GroupTag || item.WorkerGroup || item.Category
GroupField(item) ==
    OrElse(OrElse(Get(item, "GroupTag"), Get(item, "WorkerGroup")), Get(item, "Category"))

\* toLowerCase of a truthy number is a TypeError
GroupRows(data, groupName) ==
    IF \E k \in DOMAIN data : SplitThrows(GroupField(data[k])) THEN Thrown
    ELSE Rows(SelectSeq(data, LAMBDA item :
             /\ Truthy(GroupField(item))
             /\ includes(toLowerCase(GroupField(item).s), toLowerCase(groupName))))

processGroupFilter(entityType, groupName, entities) ==
    GroupRows(TargetData(entities, findEntityByType(entityType, entities)), groupName)

\* parsed.includes(phase): Array.prototype.includes on an array,
\* String.prototype.includes on a string; any other value has no includes
\* and the TypeError is caught
JsonIncludes(v, phase) ==
    CASE v.k = "array" ->
            \E j \in DOMAIN v.items :
                NumberIsInteger(v.items[j]) /\ JIntVal(v.items[j]) = phase
      [] v.k = "string" -> includes(v.s, IntToStr(phase))
      [] OTHER -> FALSE

\* phases.every(phase => availableSlots.includes(phase)) inside the try
EveryPhase(r, phases) ==
    r.ok /\ \A k \in DOMAIN phases : JsonIncludes(r.v, phases[k])

\* phases.some(phase => preferredPhases.includes(phase)) inside the try
SomePhase(r, phases) ==
    r.ok /\ \E k \in DOMAIN phases : JsonIncludes(r.v, phases[k])

\* the filter callback of processPhaseFilter
PhaseKeeps(item, phases) ==
    IF Truthy(Get(item, "AvailableSlots"))
    THEN EveryPhase(JSONparse(Get(item, "AvailableSlots")), phases)
    ELSE IF Truthy(Get(item, "PreferredPhases"))
    THEN SomePhase(JSONparse(Get(item, "PreferredPhases")), phases)
    ELSE FALSE

processPhaseFilter(entityType, phases, entities) ==
    Rows(SelectSeq(TargetData(entities, findEntityByType(entityType, entities)),
             LAMBDA item : PhaseKeeps(item, phases)))

\* item.Skills || item.RequiredSkills || ''
SkillsField(item) == OrElse(OrElse(Get(item, "Skills"), Get(item, "RequiredSkills")), Str(<<>>))

\* skillsText.split(/\s+(?:or|and)\s+/).map(s => s.trim().toLowerCase())
RequiredSkillsOf(skillsText) ==
    LET Each(parts) == [k \in DOMAIN parts |-> toLowerCase(trim(parts[k]))]
    IN  Each(splitRegExp(skillsText, OrAndPattern))

SkillRows(data, requiredSkills) ==
    IF \E k \in DOMAIN data : SplitThrows(SkillsField(data[k])) THEN Thrown
    ELSE Rows(SelectSeq(data, LAMBDA item :
             \E k \in DOMAIN requiredSkills :
                 includes(toLowerCase(SkillsField(item).s), requiredSkills[k])))

processSkillFilter(entityType, skillsText, entities) ==
    SkillRows(TargetData(entities, findEntityByType(entityType, entities)),
              RequiredSkillsOf(skillsText))

\* [parseInt(phase1), phase2 ? parseInt(phase2) : null].filter(Boolean)
PhasesOf(caps) ==
    SelectSeq([k \in 1..(Len(caps) - 1) |-> DigitsVal(caps[k + 1], 1, 0)],
              LAMBDA phase : phase # 0)

\* the ordered pattern table
queryPatterns ==
    <<[pattern |-> ConditionPattern, processor |-> "condition",
       description |-> "Find entities with specific conditions"],
      [pattern |-> GreaterPattern, processor |-> ">",
       description |-> "Find entities with numeric comparisons"],
      [pattern |-> LessPattern, processor |-> "<",
       description |-> "Find entities with numeric comparisons"],
      [pattern |-> EqualPattern, processor |-> "=",
       description |-> "Find entities with exact matches"],
      [pattern |-> GroupPattern, processor |-> "group",
       description |-> "Find entities in specific groups"],
      [pattern |-> PhasePattern, processor |-> "phase",
       description |-> "Find entities available in specific phases"],
      [pattern |-> SkillPattern, processor |-> "skill",
       description |-> "Find entities with specific skills"]>>

\* pattern.processor(match, data), caps being match[1], match[2], ...
Process(processor, caps, entities) ==
    CASE processor = "condition" -> processCondition(caps[1], caps[2], entities)
      [] processor \in {">", "<"} ->
            processComparison(caps[1], caps[2], processor,
                              Num(DigitsVal(caps[3], 1, 0)), entities)
      [] processor = "=" ->
            processComparison(caps[1], caps[2], "=", Str(trim(caps[3])), entities)
      [] processor = "group" -> processGroupFilter(caps[1], caps[2], entities)
      [] processor = "phase" -> processPhaseFilter(caps[1], PhasesOf(caps), entities)
      [] OTHER -> processSkillFilter(caps[1], caps[2], entities)

\* the loop over queryPatterns: the position of the first pattern that
\* matches the query, 0 when none does
RECURSIVE FirstPattern(_, _)
FirstPattern(query, k) ==
    IF k > Len(queryPatterns) THEN 0
    ELSE IF match(query, queryPatterns[k].pattern).ok THEN k
    ELSE FirstPattern(query, k + 1)

\* {...row, _entityType: type}
WithEntityType(row, type) == SetCell(row, "_entityType", Str(type))

\* a search that compares the values as they are written
RowContainsExactCase(row, queryLower) ==
    \E k \in DOMAIN row : includes(ToStr(row[k]), queryLower)

\* Object.values(row).some(value => value?.toString().toLowerCase().includes(queryLower))
RowContains(row, queryLower) ==
    \E k \in DOMAIN row : includes(toLowerCase(ToStr(row[k])), queryLower)

\* the fallback text search over all entities, from entity i on
RECURSIVE FallbackFrom(_, _, _)
FallbackFrom(entities, i, queryLower) ==
    LET Tagged(matchingRows) ==
            [k \in DOMAIN matchingRows |->
                WithEntityType(matchingRows[k], KindText(entities[i].type))]
    IN  IF i > Len(entities) THEN <<>>
        ELSE Tagged(SelectSeq(entities[i].data, LAMBDA row : RowContains(row, queryLower)))
             \o FallbackFrom(entities, i + 1, queryLower)

\* results.map(result => ({...result, _entityType: result._entityType || 'unknown'}))
AddEntityType(rows) ==
    [k \in DOMAIN rows |->
        IF Truthy(Get(rows[k], "_entityType")) THEN rows[k]
        ELSE WithEntityType(rows[k], <<"u", "n", "k", "n", "o", "w", "n">>)]

\* an annotation written into the row that was found
AssignedInPlace(row, type) == SetCell(row, "_entityType", type)

\* the row that was found, after ({...row, _entityType: type}) was built
\* from it: the annotation goes to the copy
SourceAfterSpread(row, type) == row

\* the entities after a query returned rows: every result is a spread copy
\* of a row that a filter over entity.data found
DataAfterQuery(entities, rows) ==
    LET Found(row) == {k \in DOMAIN rows : SetCell(rows[k], "_entityType", Undefined) = row}
        After(row) ==
            IF Found(row) = {} THEN row
            ELSE SourceAfterSpread(row, rows[CHOOSE k \in Found(row) : TRUE]["_entityType"])
    IN  [e \in DOMAIN entities |->
            [entities[e] EXCEPT !.data = [j \in DOMAIN @ |-> After(@[j])]]]

FallbackInsight == "Used fallback text search across all entities"

\* `Processed using pattern: ${pattern.description}`
PatternInsight(k) ==
    CASE k = 1 -> "Processed using pattern: Find entities with specific conditions"
      [] k \in {2, 3} -> "Processed using pattern: Find entities with numeric comparisons"
      [] k = 4 -> "Processed using pattern: Find entities with exact matches"
      [] k = 5 -> "Processed using pattern: Find entities in specific groups"
      [] k = 6 -> "Processed using pattern: Find entities available in specific phases"
      [] OTHER -> "Processed using pattern: Find entities with specific skills"

\* what the try block of processNaturalLanguageQuery computes
Answer(threw, rows, insight) == [threw |-> threw, results |-> rows, insight |-> insight]

\* the part after the loop: out is what the matched processor returned
\* (no rows when no pattern matched), insight the text set in the loop
AfterPatterns(out, insight, query, entities) ==
    IF out.threw THEN Answer(TRUE, <<>>, "")
    ELSE IF Len(out.rows) = 0
    THEN Answer(FALSE, AddEntityType(FallbackFrom(entities, 1, toLowerCase(query))),
                FallbackInsight)
    ELSE Answer(FALSE, AddEntityType(out.rows), insight)

\* the loop body for the first matching pattern k
MatchedPattern(k, query, entities) ==
    AfterPatterns(Process(queryPatterns[k].processor,
                          match(query, queryPatterns[k].pattern).caps, entities),
                  PatternInsight(k), query, entities)

\* the try block of processNaturalLanguageQuery
RunQuery(query, entities, k) ==
    IF k = 0 THEN AfterPatterns(Rows(<<>>), "", query, entities)
    ELSE MatchedPattern(k, query, entities)

\* ------------------------------------------------------------------------
\* SearchPanel: the state machine of the queries
\* ------------------------------------------------------------------------

\* queries in flight at one time
MaxInFlight == 2

\* a drop of three CSV files: every cell is a string
CsvClients ==
    <<[ClientID |-> Str(<<"C", "1">>), ClientName |-> Str(<<"A", "c", "m", "e">>), PriorityLevel |-> Str(<<"5">>),
       RequestedTaskIDs |-> Str(<<"T", "1">>), GroupTag |-> Str(<<"a", "l", "p", "h", "a">>)],
      [ClientID |-> Str(<<"C", "2">>), ClientName |-> Str(<<"B", "u", "i", "l", "d", " ", "C", "o">>), PriorityLevel |-> Str(<<"3">>),
       RequestedTaskIDs |-> Str(<<"T", "1">>), GroupTag |-> Str(<<"b", "e", "t", "a">>)]>>

CsvWorkers ==
    <<[WorkerID |-> Str(<<"W", "1">>), WorkerName |-> Str(<<"A", "n", "n">>), Skills |-> Str(<<"j", "s", ",", "g", "o">>),
       AvailableSlots |-> Str(<<"[", "1", ",", "2", "]">>), MaxLoadPerPhase |-> Str(<<"2">>),
       WorkerGroup |-> Str(<<"o", "p", "s">>)],
      [WorkerID |-> Str(<<"W", "2">>), WorkerName |-> Str(<<"B", "o", "b">>), Skills |-> Str(<<"5", "g", ",", "l", "t", "e">>),
       AvailableSlots |-> Str(<<"[", "2", "]">>), MaxLoadPerPhase |-> Str(<<"1">>),
       WorkerGroup |-> Str(<<"n", "e", "t">>)]>>

CsvTasks ==
    <<[TaskID |-> Str(<<"T", "1">>), TaskName |-> Str(<<"B", "u", "i", "l", "d">>), Duration |-> Str(<<"2">>),
       RequiredSkills |-> Str(<<"j", "s">>), MaxConcurrent |-> Str(<<"1">>),
       PreferredPhases |-> Str(<<"[", "2", "]">>)]>>

\* a workers sheet whose numeric cells arrive as numbers
SheetWorkers ==
    <<[WorkerID |-> Str(<<"W", "1">>), WorkerName |-> Str(<<"C", "y">>), Skills |-> Num(5),
       AvailableSlots |-> Str(<<"[", "1", "]">>), MaxLoadPerPhase |-> Num(1)],
      [WorkerID |-> Str(<<"W", "2">>), WorkerName |-> Str(<<"D", "i">>), Skills |-> Str(<<"a", ",", "b", ",", "c", ",", "d">>),
       AvailableSlots |-> Str(<<"[", "1", ",", "2", "]">>), MaxLoadPerPhase |-> Num(2)]>>

QueryFixtures ==
    {<<Entity("clients", CsvClients), Entity("workers", CsvWorkers), Entity("tasks", CsvTasks)>>,
     <<Entity("workers", SheetWorkers)>>}

SkillsMoreThanThree == <<"w", "o", "r", "k", "e", "r", "s", " ", "w", "i", "t", "h", " ", "s", "k", "i", "l", "l", "s", " ", "m", "o", "r", "e", " ", "t", "h", "a", "n", " ", "3">>

\* the texts typed into the query box
TypedQueries ==
    {SkillsMoreThanThree,
     <<"f", "i", "n", "d", " ", "w", "o", "r", "k", "e", "r", "s", " ", "w", "i", "t", "h", " ", "s", "k", "i", "l", "l", "s", " ", "m", "o", "r", "e", " ", "t", "h", "a", "n", " ", "1">>,
     <<"t", "a", "s", "k", "s", " ", "w", "i", "t", "h", " ", "d", "u", "r", "a", "t", "i", "o", "n", " ", "m", "o", "r", "e", " ", "t", "h", "a", "n", " ", "9">>,
     <<"t", "a", "s", "k", "s", " ", "r", "e", "q", "u", "i", "r", "i", "n", "g", " ", "s", "k", "i", "l", "l", "s", " ", "j", "s", " ", "o", "r", " ", "g", "o">>,
     <<"b", "u", "i", "l", "d">>,
     <<"5">>,
     <<" ", " ">>}

\* two of the exampleQueries buttons
exampleQueries ==
    {<<"W", "o", "r", "k", "e", "r", "s", " ", "a", "v", "a", "i", "l", "a", "b", "l", "e", " ", "i", "n", " ", "p", "h", "a", "s", "e", " ", "1", " ", "a", "n", "d", " ", "2">>,
     <<"W", "o", "r", "k", "e", "r", "s", " ", "f", "r", "o", "m", " ", "T", "e", "c", "h", "T", "e", "a", "m", " ", "g", "r", "o", "u", "p">>}

\* what onDataUpload receives for a drop none of whose validations throws
UploadOf(entities) ==
    AddPhaseErrors(ValidateAll(entities, 1, [threw |-> FALSE, seen |-> {}, list |-> <<>>]).list)

\* the panel opened on an uploaded data set
InitQuery ==
    /\ uploadedEntities \in QueryFixtures
    /\ seenIds = {}
    /\ results = [i \in DOMAIN uploadedEntities |-> NoCall]
    /\ earlier = [i \in DOMAIN uploadedEntities |-> NoCall]
    /\ phaseResult = NoCall
    /\ uploadedData = UploadOf(uploadedEntities)
    /\ SearchPanelInit
    /\ RuleBuilderInit
    /\ IndexInit("search")
    /\ DataGridInit(uploadedData)

uploadVars == <<uploadedEntities, seenIds, results, earlier, phaseResult, uploadedData,
                ruleVars, pageVars>>

\* onChange of the query box, and the Clear button
SetSearchQuery ==
    /\ \E text \in TypedQueries \cup {<<>>} : searchQuery' = text
    /\ UNCHANGED <<searchResults, isSearching, queryInsights, inFlight, searched>>
    /\ UNCHANGED uploadVars

\* processNaturalLanguageQuery up to its await
StartQuery(query) ==
    /\ Len(inFlight) < MaxInFlight
    /\ isSearching' = TRUE
    /\ queryInsights' = ""
    /\ inFlight' = Append(inFlight, query)

handleSearch ==
    IF trim(searchQuery) = <<>>
    THEN UNCHANGED <<isSearching, queryInsights, inFlight>>
    ELSE StartQuery(searchQuery)

\* the Search button, disabled while isSearching
SearchButton ==
    /\ ~isSearching
    /\ handleSearch
    /\ UNCHANGED <<searchQuery, searchResults, searched>>
    /\ UNCHANGED uploadVars

\* Enter in the query box
EnterKey ==
    /\ handleSearch
    /\ UNCHANGED <<searchQuery, searchResults, searched>>
    /\ UNCHANGED uploadVars

handleExampleClick ==
    /\ \E example \in exampleQueries :
           /\ searchQuery' = example
           /\ StartQuery(example)
    /\ UNCHANGED <<searchResults, searched>>
    /\ UNCHANGED uploadVars

\* processNaturalLanguageQuery after its await, for the oldest timer: the
\* try block, the catch that swallows a TypeError, and the finally
QueryTimer ==
    LET Done(query, answer) ==
            IF answer.threw
            THEN UNCHANGED <<searchResults, queryInsights, searched, uploadedData>>
            ELSE /\ searchResults' = answer.results
                 /\ queryInsights' = answer.insight
                 /\ searched' = [called |-> TRUE, query |-> query,
                                 results |-> answer.results]
                 /\ uploadedData' = DataAfterQuery(uploadedData, answer.results)
    IN  /\ inFlight # <<>>
        /\ Done(Head(inFlight),
                RunQuery(Head(inFlight), uploadedData, FirstPattern(Head(inFlight), 1)))
        /\ isSearching' = FALSE
        /\ inFlight' = Tail(inFlight)
        /\ UNCHANGED searchQuery
        /\ UNCHANGED <<uploadedEntities, seenIds, results, earlier, phaseResult,
                       ruleVars, pageVars>>

NextQuery ==
    \/ SetSearchQuery
    \/ SearchButton
    \/ EnterKey
    \/ handleExampleClick
    \/ QueryTimer

SpecQuery == InitQuery /\ [][NextQuery]_vars

\* ------------------------------------------------------------------------
\* Properties of the query engine
\* ------------------------------------------------------------------------

\* a result row without its annotation
WithoutEntityType(row) == SetCell(row, "_entityType", Undefined)

\* the filter output of the first pattern matching the query
PatternOutput(query, k) ==
    Process(queryPatterns[k].processor, match(query, queryPatterns[k].pattern).caps,
            uploadedData)

\* C7: the engine selects the first pattern of the ordered table that
\* matches the query text and returns that pattern's filter output, also
\* when it is empty; the fallback search is used only when no pattern
\* matches the text.
C7_FirstPatternDecides ==
    (searched.called /\ queryInsights # "") =>
        IF FirstPattern(searched.query, 1) # 0
        THEN /\ queryInsights = PatternInsight(FirstPattern(searched.query, 1))
             /\ [k \in DOMAIN searched.results |-> WithoutEntityType(searched.results[k])]
                    = PatternOutput(searched.query, FirstPattern(searched.query, 1)).rows
        ELSE queryInsights = FallbackInsight

\* the rows of the uploaded entities, each annotated with its entity's kind
AnnotatedSourceRows ==
    UNION {{WithEntityType(uploadedData[i].data[r], KindText(uploadedData[i].type)) :
               r \in DOMAIN uploadedData[i].data} : i \in DOMAIN uploadedData}

\* C8: every row returned by a query, from a pattern filter or from the
\* fallback search, is a copy of a source row annotated with the kind of
\* the entity the row came from, and the source rows are as they were.
C8_RowsAnnotatedWithKind ==
    searched.called =>
        /\ \A k \in DOMAIN searched.results : searched.results[k] \in AnnotatedSourceRows
        /\ uploadedData = UploadOf(uploadedEntities)

\* the number of comma-separated skills of a row
SkillCount(row) == Len(split(ToStr(Get(row, "Skills")), ","))

\* C9: every row the query "workers with skills more than 3" returns is a
\* worker row whose number of comma-separated skills exceeds 3.
C9_OnlyWorkersWithMoreThanThreeSkills ==
    (searched.called /\ searched.query = SkillsMoreThanThree) =>
        \A k \in DOMAIN searched.results :
            /\ \E w \in DOMAIN RowsOfType(uploadedData, "workers") :
                   WithoutEntityType(searched.results[k]) = RowsOfType(uploadedData, "workers")[w]
            /\ SkillCount(searched.results[k]) > 3

\* the lower-cased string form of some field value of the row contains
\* the lower-cased text
HoldsText(row, text) ==
    \E k \in DOMAIN row :
        \E i \in 1..(Len(ToStr(row[k])) + 1) :
            /\ i + Len(text) - 1 <= Len(ToStr(row[k]))
            /\ \A j \in 1..Len(text) :
                   LowerChar(ToStr(row[k])[i + j - 1]) = LowerChar(text[j])

\* the rows holding the text, as <<entity position, row position>>
RowsHolding(text) ==
    {<<i, r>> \in UNION {{<<e, q>> : q \in DOMAIN uploadedData[e].data} : e \in DOMAIN uploadedData} :
        HoldsText(uploadedData[i].data[r], text)}

\* the place of row r of entity i among the rows holding the text, in
\* entity order and row order
PlaceOf(text, i, r) ==
    Cardinality({p \in RowsHolding(text) : p[1] < i \/ (p[1] = i /\ p[2] <= r)})

\* C10: for a query text that matches no pattern the result is exactly the
\* rows, over all entities in entity order and row order, of which the
\* lower-cased string form of some field value contains the lower-cased
\* query text, each once and tagged with the kind of its own entity.
C10_FallbackSubstringSearch ==
    (searched.called /\ FirstPattern(searched.query, 1) = 0) =>
        /\ Len(searched.results) = Cardinality(RowsHolding(searched.query))
        /\ \A p \in RowsHolding(searched.query) :
               searched.results[PlaceOf(searched.query, p[1], p[2])]
                   = [k \in DOMAIN uploadedData[p[1]].data[p[2]] \cup {"_entityType"} |->
                         IF k = "_entityType" THEN Str(KindText(uploadedData[p[1]].type))
                         ELSE uploadedData[p[1]].data[p[2]][k]]

\* a query matching no pattern has returned rows of two entities, found
\* through a difference of case
C10_FallbackAcrossEntities ==
    /\ searched.called
    /\ FirstPattern(searched.query, 1) = 0
    /\ searched.query = <<"b", "u", "i", "l", "d">>
    /\ Len(searched.results) = 2
    /\ searched.results[1]["_entityType"] = Str(<<"c", "l", "i", "e", "n", "t", "s">>)
    /\ searched.results[2]["_entityType"] = Str(<<"t", "a", "s", "k", "s">>)

\* ------------------------------------------------------------------------
\* Rule builder (RuleBuilder)
\* ------------------------------------------------------------------------

\* the ids of ruleTypes
ruleTypes == {"coRun", "slotRestriction", "loadLimit", "phaseWindow", "patternMatch", "precedence"}

PleaseEnter == "Please enter a rule description"

RuleInterpreted == "Rule interpreted! Please review and adjust the parameters."

\* a suggestedRule object; parameters is an object, a sequence of
\* <<key, value>> pairs in insertion order
BusinessRule(type, name, description, parameters) ==
    [type |-> type, name |-> name, description |-> description, parameters |-> parameters]

\* the chain with its second row tested before its first
SuggestLoadFirst(ruleLower, text) ==
    IF includes(ruleLower, <<"l", "o", "a", "d">>) \/ includes(ruleLower, <<"l", "i", "m", "i", "t">>)
    THEN BusinessRule("loadLimit", <<"L", "o", "a", "d", " ", "L", "i", "m", "i", "t", " ", "R", "u", "l", "e">>, text,
                      <<<<"maxSlotsPerPhase", JInt(5)>>, <<"workerGroup", JString(<<>>)>>>>)
    ELSE IF includes(ruleLower, <<"t", "o", "g", "e", "t", "h", "e", "r">>) \/ includes(ruleLower, <<"c", "o", "-", "r", "u", "n">>)
    THEN BusinessRule("coRun", <<"C", "o", "-", "r", "u", "n", " ", "R", "u", "l", "e">>, text, <<<<"tasks", JArray(<<>>)>>>>)
    ELSE IF includes(ruleLower, <<"p", "h", "a", "s", "e">>) \/ includes(ruleLower, <<"w", "i", "n", "d", "o", "w">>)
    THEN BusinessRule("phaseWindow", <<"P", "h", "a", "s", "e", " ", "W", "i", "n", "d", "o", "w", " ", "R", "u", "l", "e">>, text,
                      <<<<"taskId", JString(<<>>)>>, <<"allowedPhases", JArray(<<>>)>>>>)
    ELSE BusinessRule("patternMatch", <<"C", "u", "s", "t", "o", "m", " ", "R", "u", "l", "e">>, text,
                      <<<<"pattern", JString(<<>>)>>, <<"action", JString(<<"a", "p", "p", "l", "y">>)>>>>)

\* the if / else-if chain of processNaturalLanguageRule on the lower-cased text
SuggestFrom(ruleLower, text) ==
    IF includes(ruleLower, <<"t", "o", "g", "e", "t", "h", "e", "r">>) \/ includes(ruleLower, <<"c", "o", "-", "r", "u", "n">>)
    THEN BusinessRule("coRun", <<"C", "o", "-", "r", "u", "n", " ", "R", "u", "l", "e">>, text, <<<<"tasks", JArray(<<>>)>>>>)
    ELSE IF includes(ruleLower, <<"l", "o", "a", "d">>) \/ includes(ruleLower, <<"l", "i", "m", "i", "t">>)
    THEN BusinessRule("loadLimit", <<"L", "o", "a", "d", " ", "L", "i", "m", "i", "t", " ", "R", "u", "l", "e">>, text,
                      <<<<"maxSlotsPerPhase", JInt(5)>>, <<"workerGroup", JString(<<>>)>>>>)
    ELSE IF includes(ruleLower, <<"p", "h", "a", "s", "e">>) \/ includes(ruleLower, <<"w", "i", "n", "d", "o", "w">>)
    THEN BusinessRule("phaseWindow", <<"P", "h", "a", "s", "e", " ", "W", "i", "n", "d", "o", "w", " ", "R", "u", "l", "e">>, text,
                      <<<<"taskId", JString(<<>>)>>, <<"allowedPhases", JArray(<<>>)>>>>)
    ELSE BusinessRule("patternMatch", <<"C", "u", "s", "t", "o", "m", " ", "R", "u", "l", "e">>, text,
                      <<<<"pattern", JString(<<>>)>>, <<"action", JString(<<"a", "p", "p", "l", "y">>)>>>>)

suggestedRule(text) == SuggestFrom(toLowerCase(text), text)

\* the texts typed into the rule box
RuleTexts ==
    {<<>>,
     <<" ">>,
     <<"T", "1", " ", "a", "n", "d", " ", "T", "2", " ", "T", "o", "g", "e", "t", "h", "e", "r">>,
     <<"c", "o", "-", "r", "u", "n", " ", "u", "n", "d", "e", "r", " ", "l", "o", "a", "d">>,
     <<"L", "i", "m", "i", "t", " ", "e", "a", "c", "h", " ", "P", "h", "a", "s", "e">>,
     <<"p", "h", "a", "s", "e", " ", "w", "i", "n", "d", "o", "w", " ", "1", "-", "3">>,
     <<"W", "I", "N", "D", "O", "W">>,
     <<"w", "o", "r", "k", "l", "o", "a", "d">>,
     <<"t", "o", "g", "e", "t", "h", "e", "r", " ", "i", "n", " ", "a", " ", "w", "i", "n", "d", "o", "w">>,
     <<"s", "k", "i", "p", " ", "T", "9">>,
     <<" ", "x", " ">>}

\* the texts typed into the name and description fields of the form
FormTexts == {<<>>, <<"R", "1">>}

dataVars == <<uploadedEntities, seenIds, results, earlier, phaseResult, uploadedData>>

\* the builder opened on an uploaded data set
InitRule ==
    /\ uploadedEntities \in QueryFixtures
    /\ seenIds = {}
    /\ results = [i \in DOMAIN uploadedEntities |-> NoCall]
    /\ earlier = [i \in DOMAIN uploadedEntities |-> NoCall]
    /\ phaseResult = NoCall
    /\ uploadedData = UploadOf(uploadedEntities)
    /\ SearchPanelInit
    /\ RuleBuilderInit
    /\ IndexInit("rules")
    /\ DataGridInit(uploadedData)

\* onChange of the rule box
SetNaturalLanguageRule ==
    /\ \E text \in RuleTexts : naturalLanguageRule' = text
    /\ UNCHANGED <<selectedRuleType, ruleName, ruleDescription, ruleParameters, toasted, interpreted>>
    /\ UNCHANGED <<dataVars, queryVars, pageVars>>

\* onValueChange of the rule type Select
SetSelectedRuleType ==
    /\ \E type \in ruleTypes : selectedRuleType' = type
    /\ UNCHANGED <<ruleName, ruleDescription, ruleParameters, naturalLanguageRule, toasted, interpreted>>
    /\ UNCHANGED <<dataVars, queryVars, pageVars>>

\* onChange of the name field
SetRuleName ==
    /\ \E text \in FormTexts : ruleName' = text
    /\ UNCHANGED <<selectedRuleType, ruleDescription, ruleParameters, naturalLanguageRule, toasted, interpreted>>
    /\ UNCHANGED <<dataVars, queryVars, pageVars>>

\* onChange of the description field
SetRuleDescription ==
    /\ \E text \in FormTexts : ruleDescription' = text
    /\ UNCHANGED <<selectedRuleType, ruleName, ruleParameters, naturalLanguageRule, toasted, interpreted>>
    /\ UNCHANGED <<dataVars, queryVars, pageVars>>

\* the 'interpret' button; s || '' of a string s is s, and the parameters
\* object is truthy
processNaturalLanguageRule ==
    LET Suggest(rule) ==
            /\ selectedRuleType' = rule.type
            /\ ruleName' = rule.name
            /\ ruleDescription' = rule.description
            /\ ruleParameters' = rule.parameters
    IN  /\ interpreted' = [called |-> TRUE, text |-> naturalLanguageRule]
        /\ IF trim(naturalLanguageRule) = <<>>
           THEN /\ toasted' = PleaseEnter
                /\ UNCHANGED <<selectedRuleType, ruleName, ruleDescription, ruleParameters,
                               naturalLanguageRule>>
           ELSE /\ Suggest(suggestedRule(naturalLanguageRule))
                /\ naturalLanguageRule' = <<>>
                /\ toasted' = RuleInterpreted
        /\ UNCHANGED <<dataVars, queryVars, pageVars>>

NextRule ==
    \/ SetNaturalLanguageRule
    \/ SetSelectedRuleType
    \/ SetRuleName
    \/ SetRuleDescription
    \/ processNaturalLanguageRule

SpecRule == InitRule /\ [][NextRule]_vars

\* ------------------------------------------------------------------------
\* Properties of the rule interpreter
\* ------------------------------------------------------------------------

\* the keyword table of the interpreter, in priority order
KeywordTable ==
    <<[triggers |-> {<<"t", "o", "g", "e", "t", "h", "e", "r">>, <<"c", "o", "-", "r", "u", "n">>}, kind |-> "coRun"],
      [triggers |-> {<<"l", "o", "a", "d">>, <<"l", "i", "m", "i", "t">>}, kind |-> "loadLimit"],
      [triggers |-> {<<"p", "h", "a", "s", "e">>, <<"w", "i", "n", "d", "o", "w">>}, kind |-> "phaseWindow"]>>

\* the rows of the table with a trigger occurring in the lower-cased text
RowsTriggered(text) ==
    {r \in DOMAIN KeywordTable :
        \E w \in KeywordTable[r].triggers : includes(toLowerCase(text), w)}

EarliestKind(text) ==
    IF RowsTriggered(text) = {} THEN "patternMatch"
    ELSE KeywordTable[CHOOSE r \in RowsTriggered(text) :
                          \A q \in RowsTriggered(text) : r <= q].kind

\* C11: for every non-empty rule text, a text whose lower-cased form
\* contains "together" is interpreted as coRun, a text containing none of
\* the triggers is interpreted as patternMatch, and the description of the
\* skeleton is the original text, character for character.
C11_TogetherAndDefaultKind ==
    [][(processNaturalLanguageRule /\ naturalLanguageRule # <<>>) =>
          /\ includes(toLowerCase(naturalLanguageRule), <<"t", "o", "g", "e", "t", "h", "e", "r">>)
                => selectedRuleType' = "coRun"
          /\ RowsTriggered(naturalLanguageRule) = {}
                => selectedRuleType' = "patternMatch"
          /\ ruleDescription' = naturalLanguageRule]_vars

\* C12: the keyword table is applied first-match-wins in the order
\* together/co-run, load/limit, phase/window, default: an interpreted text
\* gets the kind of the earliest row with a trigger in it, and loadLimit
\* comes with maxSlotsPerPhase = 5.
C12_EarliestRowWins ==
    [][(processNaturalLanguageRule /\ toasted' = RuleInterpreted) =>
          /\ selectedRuleType' = EarliestKind(naturalLanguageRule)
          /\ selectedRuleType' = "loadLimit"
                => /\ HasKey(ruleParameters', "maxSlotsPerPhase")
                   /\ ruleParameters'[1] = <<"maxSlotsPerPhase", JInt(5)>>]_vars

\* a text with triggers of the second and third row was interpreted as loadLimit
C12_LimitBeforePhase ==
    /\ interpreted.called
    /\ toasted = RuleInterpreted
    /\ Cardinality(RowsTriggered(interpreted.text)) > 1
    /\ includes(toLowerCase(interpreted.text), <<"l", "i", "m", "i", "t">>)
    /\ includes(toLowerCase(interpreted.text), <<"p", "h", "a", "s", "e">>)
    /\ selectedRuleType = "loadLimit"
    /\ ruleDescription = interpreted.text

\* C13: the interpreter never fails: for every text, the empty and the
\* whitespace-only text included, it produces a skeleton with a
\* business-rule kind (patternMatch when no keyword matches), a name, the
\* description and parameters.
C13_InterpreterNeverFails ==
    [][processNaturalLanguageRule =>
          /\ toasted' = RuleInterpreted
          /\ selectedRuleType' = EarliestKind(naturalLanguageRule)
          /\ ruleName' # <<>>
          /\ ruleDescription' = naturalLanguageRule
          /\ ruleParameters' # <<>>]_vars

\* ------------------------------------------------------------------------
\* Properties of the validation engine: required columns and ordering
\* ------------------------------------------------------------------------

\* the fields required for an entity kind
RequiredColumnsOf(kind) ==
    CASE kind = "clients" -> Range(ClientRequiredColumns)
      [] kind = "workers" -> Range(WorkerRequiredColumns)
      [] kind = "tasks" -> Range(TaskRequiredColumns)
      [] OTHER -> {}

\* the missing_column diagnostics a returned sequence holds for one field
MissingColumnFor(errors, f) ==
    SelectSeq(errors, LAMBDA e : e.type = "missing_column" /\ e.column = f)

\* the diagnostics of the row loop alone, run without a required-column check
RowLevelOnly(entities, i) ==
    CASE entities[i].type = "clients" ->
            ClientRows(entities[i].data, 1,
                ValidTaskIds(entities, findByType(entities, "tasks")),
                Outcome(FALSE, <<>>, {})).errors
      [] entities[i].type = "workers" ->
            WorkerRows(entities[i].data, 1, Outcome(FALSE, <<>>, {})).errors
      [] OTHER ->
            TaskRows(entities[i].data, 1,
                WorkersData(entities, findByType(entities, "workers")),
                UNION {SkillsOf(Get(w, "Skills")) :
                          w \in Range(WorkersData(entities, findByType(entities, "workers")))},
                Outcome(FALSE, <<>>, {})).errors

\* the required-column part of C14 for one returned sequence
MissingColumnsReported(entity, errors) ==
    /\ \A f \in RequiredColumnsOf(entity.type) :
           /\ Len(MissingColumnFor(errors, f)) = IF f \in DOMAIN entity.data[1] THEN 0 ELSE 1
           /\ \A k \in DOMAIN MissingColumnFor(errors, f) :
                  /\ MissingColumnFor(errors, f)[k].row = 1
                  /\ MissingColumnFor(errors, f)[k].severity = "error"
    /\ \A k \in DOMAIN errors : \A q \in DOMAIN errors :
           (errors[k].type = "missing_column" /\ errors[q].type # "missing_column") => k < q

\* C14: for every entity with at least one row and every field required
\* for its kind, validation emits exactly one missing_column error with
\* row 1 for the field iff the first row's key set omits it; these errors
\* precede all row-level diagnostics, and the row-level diagnostics are
\* those of every row-level check on every row.
C14_MissingColumnsFirst ==
    \A i \in DOMAIN results :
        (results[i].called /\ Len(uploadedEntities[i].data) > 0) =>
            /\ MissingColumnsReported(uploadedEntities[i], results[i].errors)
            /\ SelectSeq(results[i].errors, LAMBDA e : e.type # "missing_column")
                   = RowLevelOnly(uploadedEntities, i)

\* the place of a diagnostic in the enumerated check order: required
\* columns, identity, numeric range, encoded structure, cross reference,
\* capacity consistency, skill coverage, concurrency feasibility
EnumeratedPlace(e) ==
    CASE e.type = "missing_column" -> 0
      [] e.type \in {"duplicate_id", "missing_value"} -> 1
      [] e.type = "invalid_range" -> 2
      [] e.type \in {"invalid_json", "malformed_list"} -> 3
      [] e.type = "unknown_reference" -> 4
      [] e.type = "overloaded_worker" -> 5
      [] e.type = "skill_coverage" -> 6
      [] e.type = "max_concurrency_feasibility" -> 7
      [] OTHER -> 8

\* the place of a diagnostic in the order the row loops of the three
\* kinds run their checks
LoopPlace(kind, e) ==
    CASE e.type = "missing_column" -> 0
      [] e.type \in {"duplicate_id", "missing_value"} -> 1
      [] kind = "clients" /\ e.type = "invalid_range" -> 2
      [] kind = "clients" /\ e.type = "invalid_json" -> 3
      [] kind = "clients" /\ e.type = "unknown_reference" -> 4
      [] kind = "workers" /\ e.type \in {"malformed_list", "overloaded_worker"} -> 2
      [] kind = "workers" /\ e.type = "invalid_range" -> 3
      [] kind = "tasks" /\ e.type = "invalid_range" /\ e.column = "Duration" -> 2
      [] kind = "tasks" /\ e.type = "invalid_range" /\ e.column = "MaxConcurrent" -> 3
      [] kind = "tasks" /\ e.type = "skill_coverage" -> 4
      [] kind = "tasks" /\ e.type = "max_concurrency_feasibility" -> 5
      [] kind = "tasks" /\ e.type = "malformed_list" -> 6
      [] OTHER -> 7

\* C15 as stated: the returned sequence is row-major and, within one row,
\* follows the enumerated check order (identity, numeric range, encoded
\* structure, cross reference, capacity consistency, skill coverage,
\* concurrency feasibility), for clients, workers and tasks alike.
C15_EnumeratedOrder ==
    \A i \in DOMAIN results :
        \A k \in DOMAIN results[i].errors : \A q \in DOMAIN results[i].errors :
            k < q =>
                /\ results[i].errors[k].row <= results[i].errors[q].row
                /\ results[i].errors[k].row = results[i].errors[q].row
                      => EnumeratedPlace(results[i].errors[k])
                             <= EnumeratedPlace(results[i].errors[q])

\* C15: the returned sequence is row-major and, within one row, follows
\* the order in which the row loop of the entity's kind runs its checks:
\* identity first for every kind; then for clients PriorityLevel range,
\* AttributesJSON, references; for workers the AvailableSlots list or the
\* overload warning, then MaxLoadPerPhase range; for tasks Duration range,
\* MaxConcurrent range, skill coverage, concurrency feasibility, then the
\* PreferredPhases list.
C15_LoopOrder ==
    \A i \in DOMAIN results :
        \A k \in DOMAIN results[i].errors : \A q \in DOMAIN results[i].errors :
            k < q =>
                /\ results[i].errors[k].row <= results[i].errors[q].row
                /\ results[i].errors[k].row = results[i].errors[q].row
                      => LoopPlace(uploadedEntities[i].type, results[i].errors[k])
                             <= LoopPlace(uploadedEntities[i].type, results[i].errors[q])

\* a returned sequence in which a worker row has its malformed slot list
\* reported before its MaxLoadPerPhase range error, next to a later row
C15_ListBeforeRange ==
    \E i \in DOMAIN results :
        /\ results[i].called /\ ~results[i].threw
        /\ uploadedEntities[i].type = "workers"
        /\ \E k \in DOMAIN results[i].errors :
               /\ k + 1 \in DOMAIN results[i].errors
               /\ results[i].errors[k].type = "malformed_list"
               /\ results[i].errors[k + 1].type = "invalid_range"
               /\ results[i].errors[k].row = results[i].errors[k + 1].row

\* ------------------------------------------------------------------------
\* Properties of the validation engine: totality and the single checks
\* ------------------------------------------------------------------------

\* C16: validation is total: for every entity and every row of scalar
\* cells (strings, numbers, empty or absent), numeric RequestedTaskIDs,
\* Skills and RequiredSkills cells included, validateEntity and
\* validatePhaseSlotSaturation return a diagnostic sequence and never
\* raise a fault.
C16_ValidationTotal ==
    /\ \A i \in DOMAIN results : results[i].called => ~results[i].threw
    /\ phaseResult.called => ~phaseResult.threw

\* C17: a client row whose non-empty AttributesJSON value is not valid
\* JSON, or is valid JSON that is not an object, gets exactly one
\* invalid_json error on column AttributesJSON; a value that parses to an
\* object gets none.
C17_InvalidJsonUnlessObject ==
    \A i \in DOMAIN results :
        (results[i].called /\ uploadedEntities[i].type = "clients") =>
            \A r \in DOMAIN uploadedEntities[i].data :
                Truthy(Get(uploadedEntities[i].data[r], "AttributesJSON")) =>
                    /\ Len(DiagnosticsAt(results[i].errors, r, "invalid_json"))
                          = IF /\ JSONparse(Get(uploadedEntities[i].data[r], "AttributesJSON")).ok
                               /\ JSONparse(Get(uploadedEntities[i].data[r], "AttributesJSON")).v.k
                                      = "object"
                            THEN 0 ELSE 1
                    /\ \A k \in DOMAIN DiagnosticsAt(results[i].errors, r, "invalid_json") :
                           DiagnosticsAt(results[i].errors, r, "invalid_json")[k].column
                               = "AttributesJSON"

\* a PreferredPhases cell with a value that JSON.parse does not read as a list
UnparsedList(cell) ==
    Truthy(cell) /\ ~(JSONparse(cell).ok /\ ArrayIsArray(JSONparse(cell).v))

\* the warnings of a phase pass at one task's own row
TaskPhaseWarnings(errors, r) ==
    SelectSeq(errors, LAMBDA e :
        /\ e.row = r /\ e.column = "PreferredPhases"
        /\ e.type = "phase_slot_saturation" /\ e.severity = "warning")

\* the entities with the unparsed phase lists taken out of the task rows
WithoutUnparsed(entities) ==
    [i \in DOMAIN entities |->
        IF entities[i].type # "tasks" THEN entities[i]
        ELSE [entities[i] EXCEPT !.data =
                 [k \in DOMAIN entities[i].data |->
                     IF UnparsedList(Get(entities[i].data[k], "PreferredPhases"))
                     THEN SetCell(entities[i].data[k], "PreferredPhases", Undefined)
                     ELSE entities[i].data[k]]]]

\* C18: in the phase-saturation pass every task whose PreferredPhases
\* value fails to parse as a list yields one phase_slot_saturation warning
\* at its own row (column PreferredPhases), whatever its Duration, and
\* adds nothing to the demand of any phase.
C18_UnparsedTaskWarned ==
    phaseResult.called =>
        /\ \A r \in DOMAIN RowsOfType(uploadedEntities, "tasks") :
               UnparsedList(Get(RowsOfType(uploadedEntities, "tasks")[r], "PreferredPhases"))
                   => Len(TaskPhaseWarnings(phaseResult.errors, r)) = 1
        /\ PhaseAnalysis(phaseResult.errors)
               = PhaseAnalysis(validatePhaseSlotSaturation(WithoutUnparsed(uploadedEntities)))

\* the comma-separated, trimmed skills of a cell; none for an empty cell
SkillList(cell) == IF Truthy(cell) THEN SplitTrim(ToStr(cell)) ELSE <<>>

\* the union of the skills of all workers
WorkerSkillUnion(entities) ==
    UNION {Range(SkillList(Get(w, "Skills"))) : w \in Range(RowsOfType(entities, "workers"))}

\* the required skills of a task row that no worker has, in list order
Uncovered(entities, row) ==
    SelectSeq(SkillList(Get(row, "RequiredSkills")),
              LAMBDA sk : sk \notin WorkerSkillUnion(entities))

\* C19: for every task row with required skills, validation emits exactly
\* one skill_coverage warning when some required skill is absent from the
\* union of the trimmed comma-separated skills of all workers, the warning
\* lists exactly the uncovered skills, and none is emitted when every
\* required skill is in the union.
C19_SkillCoverage ==
    \A i \in DOMAIN results :
        (results[i].called /\ uploadedEntities[i].type = "tasks") =>
            \A r \in DOMAIN uploadedEntities[i].data :
                Truthy(Get(uploadedEntities[i].data[r], "RequiredSkills")) =>
                    IF Uncovered(uploadedEntities, uploadedEntities[i].data[r]) = <<>>
                    THEN DiagnosticsAt(results[i].errors, r, "skill_coverage") = <<>>
                    ELSE /\ Len(DiagnosticsAt(results[i].errors, r, "skill_coverage")) = 1
                         /\ DiagnosticsAt(results[i].errors, r, "skill_coverage")[1].severity
                                = "warning"
                         /\ DiagnosticsAt(results[i].errors, r, "skill_coverage")[1].message.args
                                = <<join(Uncovered(uploadedEntities, uploadedEntities[i].data[r]),
                                         <<",", " ">>)>>

\* the number of workers sharing a skill with the required skills of a row
Qualified(entities, row) ==
    Cardinality({k \in DOMAIN RowsOfType(entities, "workers") :
        Range(SkillList(Get(RowsOfType(entities, "workers")[k], "Skills")))
            \cap Range(SkillList(Get(row, "RequiredSkills"))) # {}})

\* the task declares a MaxConcurrent above the number of qualified workers
TooFewQualified(entities, row, maxConcurrent) ==
    ~maxConcurrent.nan /\ Qualified(entities, row) < maxConcurrent.n

\* C20: for every task row, validation emits a max_concurrency_feasibility
\* warning iff the number of workers whose skills share a skill with the
\* task's required skills is smaller than the declared MaxConcurrent; a
\* task with an empty required-skill list and an upload without workers
\* both count zero qualified workers.
C20_ConcurrencyFeasibility ==
    \A i \in DOMAIN results :
        (results[i].called /\ uploadedEntities[i].type = "tasks") =>
            \A r \in DOMAIN uploadedEntities[i].data :
                Len(DiagnosticsAt(results[i].errors, r, "max_concurrency_feasibility"))
                    = IF TooFewQualified(uploadedEntities, uploadedEntities[i].data[r],
                             parseInt(Get(uploadedEntities[i].data[r], "MaxConcurrent")))
                      THEN 1 ELSE 0

\* ------------------------------------------------------------------------
\* Properties of the validation engine: capacity consistency
\* ------------------------------------------------------------------------

\* the AvailableSlots cell parses to a list of positive integers
SlotList(cell) ==
    Truthy(cell) /\ JSONparse(cell).ok /\ PositiveIntegers(JSONparse(cell).v)

\* the overloaded_worker diagnostics of row r are as C21 states for the row
OverloadAsStated(row, found) ==
    /\ Len(found) = IF Len(JSONparse(Get(row, "AvailableSlots")).v.items)
                            < parseInt(Get(row, "MaxLoadPerPhase")).n
                    THEN 1 ELSE 0
    /\ \A k \in DOMAIN found : found[k].severity = "warning"

\* C21: for every worker row whose AvailableSlots parses to a list of
\* positive integers and whose MaxLoadPerPhase coerces to an integer,
\* validation emits exactly one overloaded_worker diagnostic iff the
\* number of available slots is smaller than MaxLoadPerPhase, and its
\* severity is warning, never error.
C21_OverloadedWorkerWarning ==
    \A i \in DOMAIN results :
        (results[i].called /\ uploadedEntities[i].type = "workers") =>
            \A r \in DOMAIN uploadedEntities[i].data :
                (/\ SlotList(Get(uploadedEntities[i].data[r], "AvailableSlots"))
                 /\ ~parseInt(Get(uploadedEntities[i].data[r], "MaxLoadPerPhase")).nan)
                    => OverloadAsStated(uploadedEntities[i].data[r],
                           DiagnosticsAt(results[i].errors, r, "overloaded_worker"))

\* a validated workers entity with an overloaded row (2 slots, load 3)
\* next to a row that is not overloaded
C21_OverloadedNextToFitting ==
    \E i \in DOMAIN results :
        /\ results[i].called /\ uploadedEntities[i].type = "workers"
        /\ \E r \in DOMAIN uploadedEntities[i].data :
               /\ SlotList(Get(uploadedEntities[i].data[r], "AvailableSlots"))
               /\ Len(DiagnosticsAt(results[i].errors, r, "overloaded_worker")) = 1
        /\ \E r \in DOMAIN uploadedEntities[i].data :
               /\ SlotList(Get(uploadedEntities[i].data[r], "AvailableSlots"))
               /\ ~parseInt(Get(uploadedEntities[i].data[r], "MaxLoadPerPhase")).nan
               /\ DiagnosticsAt(results[i].errors, r, "overloaded_worker") = <<>>

\* ------------------------------------------------------------------------
\* The busy flag of the search panel
\* ------------------------------------------------------------------------

\* C27: the isSearching flag is true whenever at least one query is still
\* in flight, whichever of the Search button, the Enter key and the example
\* buttons submitted it; the flag is false only when no query is in flight
C27_BusyWhileInFlight == inFlight # <<>> => isSearching

\* ------------------------------------------------------------------------
\* Row numbers of the diagnostics attached by onDrop
\* ------------------------------------------------------------------------

Attached(entity) == entity.errors \o entity.warnings

RowsWithin(entity) ==
    \A k \in DOMAIN Attached(entity) : Attached(entity)[k].row \in 1..Len(entity.data)

\* C28: every diagnostic attached to an uploaded entity, be it a row-level
\* one, a missing_column error or a phase-saturation warning attached to
\* the tasks entity, has a row number between 1 and the number of rows of
\* that entity
C28_DiagnosticRowsInRange ==
    \A k \in DOMAIN uploadedData : RowsWithin(uploadedData[k])

\* an upload whose tasks entity carries a missing_column error, a
\* saturation warning of the phase analysis, the warning of an unparsed
\* phase list and a diagnostic on its last row, next to an entity without rows
C28_AllThreeKindsAttached ==
    /\ \E k \in DOMAIN uploadedData : uploadedData[k].data = <<>>
    /\ \E k \in DOMAIN uploadedData :
        LET e == uploadedData[k]
        IN  /\ e.type = "tasks" /\ Len(e.data) >= 2
            /\ \E j \in DOMAIN e.errors : e.errors[j].type = "missing_column"
            /\ \E j \in DOMAIN e.warnings :
                   /\ e.warnings[j].type = "phase_slot_saturation"
                   /\ e.warnings[j].column = "Phase Analysis"
            /\ \E j \in DOMAIN Attached(e) :
                   /\ Attached(e)[j].row = Len(e.data)
                   /\ Attached(e)[j].type # "phase_slot_saturation"

\* ------------------------------------------------------------------------
\* PrioritizationPanel: the priority weights
\* ------------------------------------------------------------------------
\* A weight mapping is an object: a sequence of <<criterion id, weight>> in
\* insertion order.

\* priorityCriteria.map(criteria => criteria.id)
priorityCriteria ==
    <<"priorityLevel", "taskFulfillment", "fairness", "efficiency", "deadline", "skillMatch">>

WeightsOf(values) == [k \in DOMAIN priorityCriteria |-> <<priorityCriteria[k], values[k]>>]

\* presetProfiles.map(preset => preset.weights): balanced, priority-first,
\* efficiency-focused, fair-distribution
presetProfiles ==
    <<WeightsOf(<<50, 50, 50, 50, 50, 50>>),
      WeightsOf(<<90, 70, 30, 40, 60, 50>>),
      WeightsOf(<<40, 60, 40, 90, 50, 80>>),
      WeightsOf(<<30, 60, 90, 50, 40, 50>>)>>

\* a slider that can be dragged past its right end
SliderPastMax == {5 * k : k \in 0..21}

\* what the Slider hands to onValueChange: min 0, max 100, step 5
SliderValues == {5 * k : k \in 0..20}

\* {...weights, [criteriaId]: value}
WithWeight(weights, criteriaId, value) ==
    IF HasKey(weights, criteriaId)
    THEN [k \in DOMAIN weights |->
             IF weights[k][1] = criteriaId THEN <<criteriaId, value>> ELSE weights[k]]
    ELSE Append(weights, <<criteriaId, value>>)

\* weights[criteriaId] of a criterion that has a stored weight
StoredWeight(weights, criteriaId) ==
    weights[CHOOSE k \in DOMAIN weights : weights[k][1] = criteriaId][2]

\* localWeights[criteria.id] || 50, as shown by the slider, the badge, the
\* chart and the distribution list: undefined and 0 are falsy
DisplayedWeight(weights, criteriaId) ==
    IF HasKey(weights, criteriaId) /\ StoredWeight(weights, criteriaId) # 0
    THEN StoredWeight(weights, criteriaId) ELSE 50

\* sliders moved since the page was loaded or a preset or reset was applied
MaxMoved == 1

\* the criteria on which weights differs from base
MovedFrom(weights, base) ==
    {k \in DOMAIN priorityCriteria :
        \/ HasKey(weights, priorityCriteria[k]) # HasKey(base, priorityCriteria[k])
        \/ /\ HasKey(weights, priorityCriteria[k])
           /\ StoredWeight(weights, priorityCriteria[k]) # StoredWeight(base, priorityCriteria[k])}

WithinMoved(weights) ==
    \E base \in {<<>>} \cup Range(presetProfiles) :
        Cardinality(MovedFrom(weights, base)) <= MaxMoved

\* setLocalWeights(weights); onWeightsUpdate(weights), that is
\* Index.handlePriorityUpdate
SetWeights(weights) ==
    /\ localWeights' = weights
    /\ priorityWeights' = weights

panelVars == <<dataVars, queryVars, ruleVars, activeTab, gridVars, listVars>>

\* onValueChange of the slider of one criterion
handleWeightChange ==
    /\ \E k \in DOMAIN priorityCriteria, value \in SliderValues :
           /\ WithinMoved(WithWeight(localWeights, priorityCriteria[k], value))
           /\ SetWeights(WithWeight(localWeights, priorityCriteria[k], value))
    /\ UNCHANGED panelVars

\* the 'Apply Preset' button of one profile
applyPreset ==
    /\ \E p \in DOMAIN presetProfiles : SetWeights(presetProfiles[p])
    /\ UNCHANGED panelVars

\* the 'Reset to Default' button
resetWeights ==
    /\ SetWeights(WeightsOf([k \in DOMAIN priorityCriteria |-> 50]))
    /\ UNCHANGED panelVars

\* the panel opened on an uploaded data set
InitPriority ==
    /\ uploadedEntities \in QueryFixtures
    /\ seenIds = {}
    /\ results = [i \in DOMAIN uploadedEntities |-> NoCall]
    /\ earlier = [i \in DOMAIN uploadedEntities |-> NoCall]
    /\ phaseResult = NoCall
    /\ uploadedData = UploadOf(uploadedEntities)
    /\ SearchPanelInit
    /\ RuleBuilderInit
    /\ IndexInit("priority")
    /\ DataGridInit(uploadedData)

NextPriority ==
    \/ handleWeightChange
    \/ applyPreset
    \/ resetWeights

SpecPriority == InitPriority /\ [][NextPriority]_vars

\* C24: after any sequence of slider changes, preset applications and
\* resets, every weight stored in the priority-weight mapping is a number
\* in 0..100 and every key of the mapping is one of the six criteria
C24_WeightsInRange ==
    \A k \in DOMAIN priorityWeights :
        /\ priorityWeights[k][1] \in Range(priorityCriteria)
        /\ priorityWeights[k][2] \in 0..100

\* a preset was applied and one slider was then dragged to its right end
C24_SliderAtMaxAfterPreset ==
    /\ Len(priorityWeights) = 6
    /\ \E k \in DOMAIN priorityWeights : priorityWeights[k][2] = 100
    /\ \E k \in DOMAIN priorityWeights : priorityWeights[k][2] = 90

\* C30: for every criterion that has a stored weight, the weight displayed
\* on its slider, badge and chart equals the stored weight, for every value
\* 0, 5, ..., 100 the slider can produce
C30_DisplayedIsStored ==
    \A k \in DOMAIN priorityCriteria :
        HasKey(localWeights, priorityCriteria[k])
            => DisplayedWeight(localWeights, priorityCriteria[k])
                   = StoredWeight(localWeights, priorityCriteria[k])

\* ------------------------------------------------------------------------
\* RuleBuilder: the rule list
\* ------------------------------------------------------------------------

PleaseSelect == "Please select a rule type and provide a name"

RuleAdded == "Rule added successfully"

RuleRemoved == "Rule removed"

\* rules in the list
MaxRules == 3

\* the latest instant of the clock
MaxClock == 1

\* the names typed into the name field
RuleNames == {<<>>, <<" ">>, <<"R", "1">>}

\* the newRule object; its id is `rule-${Date.now()}`
NewRule(instant, type, name, description, parameters) ==
    [id |-> instant, type |-> type, name |-> name, description |-> description,
     parameters |-> parameters]

\* rules.filter(rule => keep(rule)) with every rule kept but the one at position j
AllButPosition(rules, j) ==
    [k \in 1..(Len(rules) - 1) |-> IF k < j THEN rules[k] ELSE rules[k + 1]]

\* rules.filter(rule => rule.id !== ruleId)
WithoutId(rules, ruleId) == SelectSeq(rules, LAMBDA rule : rule.id # ruleId)

listFrame == <<dataVars, queryVars, activeTab, gridVars, weightVars>>

\* onChange of the name field, for blank and non-blank names
TypeRuleName ==
    /\ \E text \in RuleNames : ruleName' = text
    /\ UNCHANGED <<selectedRuleType, ruleDescription, ruleParameters, naturalLanguageRule, toasted, interpreted>>
    /\ UNCHANGED <<listFrame, listVars>>

\* the 'Add Rule' button: onRuleAdd is Index.handleRuleAdd
handleAddRule ==
    /\ IF selectedRuleType = "" \/ trim(ruleName) = <<>>
       THEN /\ toasted' = PleaseSelect
            /\ UNCHANGED <<selectedRuleType, ruleName, ruleDescription, ruleParameters,
                           businessRules>>
       ELSE /\ Len(businessRules) < MaxRules
            /\ businessRules' = Append(businessRules,
                   NewRule(now, selectedRuleType, ruleName, ruleDescription, ruleParameters))
            /\ toasted' = RuleAdded
            /\ selectedRuleType' = ""
            /\ ruleName' = <<>>
            /\ ruleDescription' = <<>>
            /\ ruleParameters' = <<>>
    /\ UNCHANGED <<naturalLanguageRule, interpreted, now, listFrame>>

\* the remove button of the rule shown at position j: onRuleUpdate is
\* setBusinessRules
handleRemoveRule(j) ==
    /\ j \in DOMAIN businessRules
    /\ businessRules' = WithoutId(businessRules, businessRules[j].id)
    /\ toasted' = RuleRemoved
    /\ UNCHANGED <<selectedRuleType, ruleName, ruleDescription, ruleParameters,
                   naturalLanguageRule, interpreted, now, listFrame>>

\* the clock moves on to its next instant
Tick ==
    /\ now < MaxClock
    /\ now' = now + 1
    /\ UNCHANGED <<ruleVars, businessRules, listFrame>>

NextRuleList ==
    \/ SetSelectedRuleType
    \/ TypeRuleName
    \/ handleAddRule
    \/ \E j \in 1..MaxRules : handleRemoveRule(j)
    \/ Tick

SpecRuleList == InitRule /\ [][NextRuleList]_vars

AddAccepted == selectedRuleType # "" /\ trim(ruleName) # <<>>

\* C29: adding a rule with a type and a non-blank name appends exactly one
\* rule and keeps all earlier rules in order; an add attempt without a type
\* or with a blank name leaves the list unchanged; removing a rule deletes
\* exactly the one rule the operator chose and keeps every other rule in
\* its order, also when two rules were added at the same clock instant
C29_AddAppendsRemoveDeletesOne ==
    [][/\ handleAddRule /\ AddAccepted
          => /\ Len(businessRules') = Len(businessRules) + 1
             /\ SubSeq(businessRules', 1, Len(businessRules)) = businessRules
       /\ handleAddRule /\ ~AddAccepted => businessRules' = businessRules
       /\ \A j \in 1..MaxRules :
              handleRemoveRule(j) => businessRules' = AllButPosition(businessRules, j)]_vars

\* ------------------------------------------------------------------------
\* Index and DataGrid: tabs, uploads and cell edits
\* ------------------------------------------------------------------------

RECURSIVE SumOf(_)
SumOf(numbers) == IF numbers = <<>> THEN 0 ELSE Head(numbers) + SumOf(Tail(numbers))

\* uploadedData.reduce((sum, entity) => sum + entity.errors.length, 0)
totalErrors(data) == SumOf([k \in DOMAIN data |-> Len(data[k].errors)])

\* uploadedData.reduce((sum, entity) => sum + entity.warnings.length, 0)
totalWarnings(data) == SumOf([k \in DOMAIN data |-> Len(data[k].warnings)])

\* a gate that counts the warnings as well
ValidWithoutWarnings(data) == totalErrors(data) + totalWarnings(data) = 0

\* const isDataValid = totalErrors === 0
isDataValid(data) == totalErrors(data) = 0

TabValues == {"upload", "data", "search", "rules", "priority", "export"}

\* a TabsTrigger that is not disabled
Selectable(tab) ==
    CASE tab = "upload" -> TRUE
      [] tab = "export" -> isDataValid(uploadedData)
      [] OTHER -> Len(uploadedData) # 0

\* the files dropped on the upload card: a clients file with a
\* PriorityLevel out of range, a workers file with an overloaded worker
\* next to a tasks file, and a clients file without a defect
IndexFixtures ==
    {<<Entity("clients", <<SetCell(BaseClient, "RequestedTaskIDs", Str(<<>>)),
                           [ClientID |-> Str(<<"C", "2">>), ClientName |-> Str(<<"B", "u", "i", "l", "d", " ", "C", "o">>),
                            PriorityLevel |-> Str(<<"9">>), RequestedTaskIDs |-> Str(<<>>),
                            GroupTag |-> Str(<<"b", "e", "t", "a">>)]>>)>>,
     <<Entity("workers", <<SetCell(BaseWorker, "MaxLoadPerPhase", Str(<<"3">>))>>),
       Entity("tasks", <<BaseTask>>)>>,
     <<Entity("clients", <<SetCell(BaseClient, "RequestedTaskIDs", Str(<<>>))>>)>>}

\* the columns whose cells are clicked
ClickColumns == {"ClientName", "PriorityLevel", "MaxLoadPerPhase", "Duration"}

\* the texts typed into a cell
EditTexts == {<<"3">>, <<"9">>}

\* the texts typed into the filter box of a grid
GridTerms == {<<>>, <<"b", "u", "i", "l", "d">>}

\* Object.keys(entity.data[0]), [] for an entity without rows
columns(entity) == IF Len(entity.data) = 0 THEN {} ELSE DOMAIN entity.data[1]

\* filteredData, as the positions in entity.data of its rows
filteredData(entity, term) ==
    SelectSeq([k \in DOMAIN entity.data |-> k],
              LAMBDA k : term = <<>> \/ RowContains(entity.data[k], toLowerCase(term)))

\* value?.toString() || ''
CellText(v) == IF v = Undefined THEN <<>> ELSE ToStr(v)

indexFrame == <<queryVars, ruleVars, listVars, weightVars>>

callVars == <<uploadedEntities, seenIds, results, earlier, phaseResult>>

\* files are dropped on the card of the Upload tab
DropFiles ==
    /\ activeTab = "upload"
    /\ \E files \in IndexFixtures :
           /\ uploadedEntities' = files
           /\ results' = [i \in DOMAIN files |-> NoCall]
           /\ earlier' = [i \in DOMAIN files |-> NoCall]
           /\ DropOf(files)
    /\ UNCHANGED phaseResult

\* onValueChange of the Tabs: setActiveTab
SelectTab ==
    /\ \E tab \in TabValues \ {activeTab} :
           /\ Selectable(tab)
           /\ activeTab' = tab
    /\ UNCHANGED <<callVars, uploadedData, gridVars, indexFrame>>

\* onChange of the filter box of the grid of entity k
SetSearchTerm(k) ==
    /\ activeTab = "data"
    /\ \E term \in GridTerms : searchTerm' = [searchTerm EXCEPT ![k] = term]
    /\ UNCHANGED <<callVars, uploadedData, activeTab, editingCell, clicked, indexFrame>>

\* a click on the cell shown at rowIndex of the grid of entity k
handleCellClick(k) ==
    /\ activeTab = "data"
    /\ \E column \in columns(uploadedData[k]) \cap ClickColumns,
          rowIndex \in 0..(Len(filteredData(uploadedData[k], searchTerm[k])) - 1) :
           /\ ~(editingCell[k].editing /\ editingCell[k].row = rowIndex
                  /\ editingCell[k].column = column)
           /\ clicked' = [clicked EXCEPT
                  ![k] = filteredData(uploadedData[k], searchTerm[k])[rowIndex + 1]]
           /\ editingCell' = [editingCell EXCEPT ![k] =
                  [editing |-> TRUE, row |-> rowIndex, column |-> column,
                   value |-> CellText(Get(uploadedData[k].data[clicked'[k]], column))]]
    /\ UNCHANGED <<callVars, uploadedData, activeTab, searchTerm, indexFrame>>

\* the edit box is rendered in the row shown at editingCell.row
EditBoxShown(k) ==
    /\ activeTab = "data"
    /\ editingCell[k].editing
    /\ editingCell[k].row < Len(filteredData(uploadedData[k], searchTerm[k]))
    /\ editingCell[k].column \in columns(uploadedData[k])

\* onChange of the edit box
SetEditingValue(k) ==
    /\ EditBoxShown(k)
    /\ \E text \in EditTexts : editingCell' = [editingCell EXCEPT ![k].value = text]
    /\ UNCHANGED <<callVars, uploadedData, activeTab, searchTerm, clicked, indexFrame>>

\* updatedData[editingCell.row][editingCell.column] = editingCell.value, and
\* {...entity, data: updatedData, errors: entity.errors, warnings: entity.warnings}
updatedEntity(entity, cell) ==
    [entity EXCEPT !.data[cell.row + 1] = SetCell(@, cell.column, Str(cell.value))]

\* setUploadedData(prev => prev.map(e => e.id === entity.id ? updatedData : e))
onDataUpdate(prev, id, updated) ==
    [j \in DOMAIN prev |-> IF prev[j].id = id THEN updated ELSE prev[j]]

\* the save button and the Enter key of the edit box
handleCellSave(k) ==
    /\ EditBoxShown(k)
    /\ uploadedData' = onDataUpdate(uploadedData, uploadedData[k].id,
                           updatedEntity(uploadedData[k], editingCell[k]))
    /\ editingCell' = [editingCell EXCEPT ![k] = NoCell]
    /\ UNCHANGED <<callVars, activeTab, searchTerm, clicked, indexFrame>>

\* the cancel button and the Escape key of the edit box
handleCellCancel(k) ==
    /\ EditBoxShown(k)
    /\ editingCell' = [editingCell EXCEPT ![k] = NoCell]
    /\ UNCHANGED <<callVars, uploadedData, activeTab, searchTerm, clicked, indexFrame>>

\* the page as it is loaded
InitIndex ==
    /\ uploadedEntities = <<>>
    /\ seenIds = {}
    /\ results = <<>>
    /\ earlier = <<>>
    /\ phaseResult = NoCall
    /\ uploadedData = <<>>
    /\ SearchPanelInit
    /\ RuleBuilderInit
    /\ IndexInit("upload")
    /\ DataGridInit(uploadedData)

NextIndex ==
    \/ DropFiles
    \/ SelectTab
    \/ \E k \in DOMAIN uploadedData : SetSearchTerm(k)
    \/ \E k \in DOMAIN uploadedData : handleCellClick(k)
    \/ \E k \in DOMAIN uploadedData : SetEditingValue(k)
    \/ \E k \in DOMAIN uploadedData : handleCellSave(k)
    \/ \E k \in DOMAIN uploadedData : handleCellCancel(k)

SpecIndex == InitIndex /\ [][NextIndex]_vars

\* C23: in every state reachable by uploads, tab changes and cell edits the
\* Export tab is selectable iff the total number of error-severity
\* diagnostics over all uploaded entities is zero, whatever the number of
\* warnings, and the active tab is never 'export' while some entity has an
\* error
C23_ExportGatedByErrors ==
    /\ Selectable("export")
           <=> \A k \in DOMAIN uploadedData : uploadedData[k].errors = <<>>
    /\ activeTab = "export"
           => \A k \in DOMAIN uploadedData : uploadedData[k].errors = <<>>

\* the Export tab is open on an upload without errors that carries a
\* warning and had a cell edited
C23_ExportOpenWithWarnings ==
    /\ activeTab = "export"
    /\ uploadedData # <<>>
    /\ totalWarnings(uploadedData) > 0
    /\ uploadedData # UploadOf(uploadedEntities)

\* the entities without their diagnostics, as onDrop builds them
Undiagnosed(data) == [k \in DOMAIN data |-> DataEntity(data[k].id, data[k].type, data[k].data)]

Revalidated(all) == IF all.threw THEN <<>> ELSE AddPhaseErrors(all.list)

\* C25: after any sequence of uploads and saved cell edits each uploaded
\* entity's errors and warnings are exactly the diagnostics that validation
\* yields for its current rows, with no stale diagnostic left from the
\* previous rows
C25_DiagnosticsFollowEdits ==
    uploadedData = Revalidated(ValidateAll(Undiagnosed(uploadedData), 1,
                                   [threw |-> FALSE, seen |-> {}, list |-> <<>>]))

\* C26: saving a cell edit writes the new value to the clicked column of
\* the row the user clicked and changes no other cell of the entity, for
\* every search term in the filter box, including terms that hide rows
\* above the clicked row
C26_SaveWritesClickedRow ==
    [][\A k \in DOMAIN uploadedData :
           handleCellSave(k) =>
               uploadedData' = [uploadedData EXCEPT ![k].data[clicked[k]] =
                                   SetCell(@, editingCell[k].column, Str(editingCell[k].value))]]_vars

\* ------------------------------------------------------------------------
\* The calls of the validation engine and the query engine on one data set
\* ------------------------------------------------------------------------

NextCalls ==
    \/ \E i \in DOMAIN uploadedEntities : ValidateEntityCall(i)
    \/ PhaseSaturationCall
    \/ handleExampleClick
    \/ QueryTimer

SpecCalls == InitQuery /\ [][NextCalls]_vars

\* C22: validateEntity, validatePhaseSlotSaturation and the query engine
\* leave their inputs unchanged: after any of these calls every entity
\* passed in has the same rows, the same field values in every row and the
\* same errors and warnings lists as before the call
C22_InputsUnchanged ==
    [][uploadedEntities' = uploadedEntities /\ uploadedData' = uploadedData]_vars

\* every entity was validated, the saturation check has run and a query
\* has returned rows of the data set
C22_AllThreeCalled ==
    /\ \A i \in DOMAIN results : results[i].called /\ ~results[i].threw
    /\ Len(results) = 3
    /\ phaseResult.called
    /\ searched.called /\ searched.results # <<>>
    /\ inFlight = <<>>

====
